---- MODULE Spec2Model ----
(***************************************************************************)
(* Product Inventory API: the inventory store (controllers/product.js,     *)
(* models/Product.js) and the credential store (controllers/auth.js,       *)
(* models/User.js) as state machines.                                      *)
(*                                                                         *)
(* Strings are sequences of one-character strings, so that trimming,       *)
(* upper/lower-casing and substring matching are computed, not assumed.    *)
(* A request body is a record that holds exactly the fields the client     *)
(* sent: "f \in DOMAIN body" is "body.f !== undefined".                    *)
(***************************************************************************)
EXTENDS Integers, Sequences, FiniteSets, Bags, TLC

VARIABLES
  users,      \* the users collection: a sequence of user documents, _id = index
  products,   \* the products collection: a sequence of product documents, _id = index
  reqs,       \* requests of the auth controller that are between two awaits
  resp,       \* the response sent last (status, body) with the request it answers
  softDeleted, \* history: the ids of the products a DELETE has succeeded on
  hits,       \* the rate limiters' stores: per limiter and client, the hits of its window
  passed      \* history: per limiter and client, the requests let through in its window

vars == <<users, products, reqs, resp, softDeleted, hits, passed>>

(***************************************************************************)
(* Bounds of the model.                                                    *)
(***************************************************************************)
MaxQty == 1        \* largest quantity a request carries or an add may reach
MaxProducts == 2   \* documents the products collection may hold
MaxUsers == 2      \* documents the users collection may hold
MaxReqs == 2       \* auth requests in flight at once

(***************************************************************************)
(* Strings.                                                                *)
(***************************************************************************)
ToUpper(c) == CASE c = "a" -> "A" [] c = "b" -> "B" [] OTHER -> c

ToLower(c) == CASE c = "A" -> "a" [] c = "B" -> "b" [] OTHER -> c

UpperStr(s) == [i \in 1..Len(s) |-> ToUpper(s[i])]

LowerStr(s) == [i \in 1..Len(s) |-> ToLower(s[i])]

\* { $regex: term, $options: 'i' }: case-insensitive substring match
RegexMatchI(text, term) ==
  \E i \in 0..(Len(text) - Len(term)) :
    \A j \in 1..Len(term) : ToLower(text[i + j]) = ToLower(term[j])

Has(body, f) == f \in DOMAIN body

Min(a, b) == IF a < b THEN a ELSE b

Max(a, b) == IF a > b THEN a ELSE b

(***************************************************************************)
(* Statuses of the errors that reach the global error handler.  The error  *)
(* classes and the handler are not part of the available sources; the      *)
(* statuses are those of the error taxonomy of the specification.  A       *)
(* uniqueness violation is answered 409 or 400.                            *)
(***************************************************************************)
ErrorStatuses(kind) ==
  CASE kind = "ValidationError"     -> {400}
    [] kind = "AuthenticationError" -> {401}
    [] kind = "AuthorizationError"  -> {403}
    [] kind = "NotFoundError"       -> {404}
    [] kind = "ConflictError"       -> {409, 400}
    [] kind = "DuplicateKey"        -> {409, 400}
    [] OTHER                        -> {500}

(***************************************************************************)
(* The rate limiters' stores.                                              *)
(***************************************************************************)
Limiters == {"general", "auth"}

\* the keys of the stores: req.ip
Clients == {"c1", "c2"}

NoHits == [l \in Limiters |-> [c \in Clients |-> 0]]

(***************************************************************************)
(* The inventory store.                                                    *)
(***************************************************************************)
UserIds == {1, 2}

OtherUser(u) == CHOOSE v \in UserIds : v # u

ProductIds == DOMAIN products

\* ids a request may name: the stored ones and one that matches no document
IdInputs == 1..(MaxProducts + 1)

SkuInputs == {<<"a">>, <<"A">>, <<"b">>}

NameMinLen == 2
NameMaxLen == 100

\* bodies of POST /api/products, a hand-picked cover of the cases
FullBody(s, q) ==
  [name |-> <<"a", "b">>, description |-> <<"b">>, sku |-> s, category |-> <<"a">>,
   price |-> 2, cost |-> 1, quantity |-> q, minQuantity |-> 1, unit |-> <<"u">>]

PlainBody(s, q) ==
  [name |-> <<"B", "b">>, description |-> <<"a">>, sku |-> s, category |-> <<"B">>,
   price |-> 0, cost |-> 0, quantity |-> q, unit |-> <<"u">>]

WithField(body, f, v) ==
  [g \in DOMAIN body \cup {f} |-> IF g = f THEN v ELSE body[g]]

CreateBodies ==
  { FullBody(<<"a">>, 1), FullBody(<<"A">>, 1), PlainBody(<<"b">>, 0),
    WithField(PlainBody(<<"b">>, 1), "isActive", FALSE),
    [name |-> <<"a", "b">>, price |-> 2, quantity |-> 1],
    [name |-> <<"a">>, price |-> 2, quantity |-> 1],
    WithField(FullBody(<<"b">>, 1), "cost", 0 - 1) }
  \cup { WithField(FullBody(<<"a">>, 1), "createdBy", u) : u \in UserIds }

\* commonValidations.productCreate (express-validator chain)
ProductCreateValid(body) ==
  /\ Has(body, "name") /\ Len(body.name) >= NameMinLen /\ Len(body.name) <= NameMaxLen
  /\ Has(body, "price") /\ body.price >= 0
  /\ Has(body, "quantity") /\ body.quantity >= 0

\* { ...req.body, createdBy: req.user._id }
ProductData(body, u) == WithField(body, "createdBy", u)

\* productSchema: required paths and min validators, run by save()
SchemaRequired == {"name", "description", "sku", "category", "price", "cost", "unit"}

SchemaMinZero == {"price", "cost", "quantity", "minQuantity"}

SchemaValid(data) ==
  /\ \A f \in SchemaRequired : Has(data, f)
  /\ \A f \in SchemaMinZero : Has(data, f) => data[f] >= 0
  /\ Len(data.name) <= NameMaxLen

\* new Product(data): schema defaults and the uppercase setter of sku
NewProduct(data, id) ==
  [_id |-> id,
   name |-> data.name,
   description |-> data.description,
   sku |-> UpperStr(data.sku),
   category |-> data.category,
   price |-> data.price,
   cost |-> data.cost,
   quantity |-> IF Has(data, "quantity") THEN data.quantity ELSE 0,
   minQuantity |-> IF Has(data, "minQuantity") THEN data.minQuantity ELSE 0,
   unit |-> data.unit,
   isActive |-> IF Has(data, "isActive") THEN data.isActive ELSE TRUE,
   createdBy |-> data.createdBy]

\* mutant: the collection without the unique index on sku
NoSkuIndex(sku, exceptId) == FALSE

\* the unique index on sku: some other document holds this sku
SkuTaken(sku, exceptId) ==
  \E i \in ProductIds : i # exceptId /\ products[i].sku = sku

NoResp == [op |-> "none", user |-> 0, id |-> 0, status |-> 0, valid |-> TRUE]

\* POST /api/products
CreateProduct(u, body) ==
  LET data == ProductData(body, u)
      id == Len(products) + 1
      r == [op |-> "create", user |-> u, id |-> id]
  IN
  /\ UNCHANGED <<users, reqs>>
  /\ IF ~ProductCreateValid(body) \/ ~SchemaValid(data)
     THEN /\ \E st \in ErrorStatuses("ValidationError") :
               resp' = r @@ [status |-> st, valid |-> FALSE, body |-> body]
          /\ UNCHANGED products
     ELSE IF SkuTaken(UpperStr(data.sku), 0)
     THEN /\ \E st \in ErrorStatuses("DuplicateKey") :
               resp' = r @@ [status |-> st, valid |-> TRUE]
          /\ UNCHANGED products
     ELSE /\ Len(products) < MaxProducts
          /\ products' = Append(products, NewProduct(data, id))
          /\ resp' = r @@ [status |-> 201, valid |-> TRUE, body |-> body,
                           product |-> NewProduct(data, id)]

\* quantities a stored document may hold within the bounds of the model
StoredQty == (0 - 2)..MaxQty

\* bodies of PUT /api/products/:id; "inc" stands for the "$inc" key of a body
UpdateBodies ==
  { [quantity |-> 0], [quantity |-> 0 - 1], [cost |-> 0 - 1], [isActive |-> TRUE],
    [inc |-> [quantity |-> 0 - 2]] }
  \cup { [createdBy |-> u] : u \in UserIds }

\* commonValidations.productUpdate (express-validator chain): every rule optional
ProductUpdateValid(body) ==
  /\ Has(body, "name") =>
       (Len(body.name) >= NameMinLen /\ Len(body.name) <= NameMaxLen)
  /\ Has(body, "price") => body.price >= 0
  /\ Has(body, "quantity") => body.quantity >= 0

\* mutant: the ownership check left out
IsOwnerAlways(p, u) == TRUE

\* existingProduct.createdBy.toString() !== req.user._id.toString()
IsOwner(p, u) == p.createdBy = u

\* runValidators: true -- the schema validators of the paths the update sets;
\* update validators do not run on $inc
UpdateValidatorsPass(body) ==
  /\ \A f \in SchemaMinZero : Has(body, f) => body[f] >= 0
  /\ Has(body, "name") => Len(body.name) <= NameMaxLen

\* the document findByIdAndUpdate(id, body) leaves: top-level keys are $set
\* (sku through its uppercase setter), $inc adds
ApplyUpdate(p, body) ==
  [f \in DOMAIN p |->
     IF f = "_id" THEN p[f]
     ELSE IF f = "sku" /\ Has(body, "sku") THEN UpperStr(body.sku)
     ELSE IF Has(body, f) THEN body[f]
     ELSE IF Has(body, "inc") /\ Has(body.inc, f) THEN p[f] + body.inc[f]
     ELSE p[f]]

Store(id, doc) == [products EXCEPT ![id] = doc]

\* PUT /api/products/:id
UpdateProduct(u, id, body) ==
  LET r == [op |-> "update", user |-> u, id |-> id] IN
  /\ UNCHANGED <<users, reqs>>
  /\ IF ~ProductUpdateValid(body)
     THEN /\ \E st \in ErrorStatuses("ValidationError") :
               resp' = r @@ [status |-> st, valid |-> FALSE]
          /\ UNCHANGED products
     ELSE IF id \notin ProductIds
     THEN resp' = r @@ [status |-> 404, valid |-> TRUE] /\ UNCHANGED products
     ELSE IF ~IsOwner(products[id], u)
     THEN resp' = r @@ [status |-> 403, valid |-> TRUE] /\ UNCHANGED products
     ELSE IF ~UpdateValidatorsPass(body)
     THEN /\ resp' = r @@ [status |-> 500, valid |-> TRUE, body |-> body]
          /\ UNCHANGED products
     ELSE IF SkuTaken(ApplyUpdate(products[id], body).sku, id)
     THEN /\ resp' = r @@ [status |-> 400, valid |-> TRUE, body |-> body]
          /\ UNCHANGED products
     ELSE /\ ApplyUpdate(products[id], body).quantity \in StoredQty
          /\ products' = Store(id, ApplyUpdate(products[id], body))
          /\ resp' = r @@ [status |-> 200, valid |-> TRUE, body |-> body,
                           product |-> ApplyUpdate(products[id], body)]

\* mutant: the flag written the wrong way round
SoftDeleteUpdateActive == [isActive |-> TRUE]

\* the update document of deleteProduct
SoftDeleteUpdate == [isActive |-> FALSE]

\* mutant: findByIdAndUpdate without { new: true } answers the document as it was
DeleteProductStale(u, id) ==
  LET r == [op |-> "delete", user |-> u, id |-> id, valid |-> TRUE] IN
  /\ UNCHANGED <<users, reqs>>
  /\ IF id \notin ProductIds
     THEN resp' = r @@ [status |-> 404] /\ UNCHANGED products
     ELSE IF ~IsOwner(products[id], u)
     THEN resp' = r @@ [status |-> 403] /\ UNCHANGED products
     ELSE /\ products' = Store(id, ApplyUpdate(products[id], SoftDeleteUpdate))
          /\ resp' = r @@ [status |-> 200, product |-> products[id]]

\* mutant: a delete that treats a soft-deleted product as absent
DeleteProductActiveOnly(u, id) ==
  LET r == [op |-> "delete", user |-> u, id |-> id, valid |-> TRUE] IN
  /\ UNCHANGED <<users, reqs>>
  /\ IF id \notin ProductIds \/ ~products[id].isActive
     THEN resp' = r @@ [status |-> 404] /\ UNCHANGED products
     ELSE IF ~IsOwner(products[id], u)
     THEN resp' = r @@ [status |-> 403] /\ UNCHANGED products
     ELSE /\ products' = Store(id, ApplyUpdate(products[id], SoftDeleteUpdate))
          /\ resp' = r @@ [status |-> 200,
                           product |-> ApplyUpdate(products[id], SoftDeleteUpdate)]

\* DELETE /api/products/:id
DeleteProduct(u, id) ==
  LET r == [op |-> "delete", user |-> u, id |-> id, valid |-> TRUE] IN
  /\ UNCHANGED <<users, reqs>>
  /\ IF id \notin ProductIds
     THEN resp' = r @@ [status |-> 404] /\ UNCHANGED products
     ELSE IF ~IsOwner(products[id], u)
     THEN resp' = r @@ [status |-> 403] /\ UNCHANGED products
     ELSE /\ products' = Store(id, ApplyUpdate(products[id], SoftDeleteUpdate))
          /\ resp' = r @@ [status |-> 200,
                           product |-> ApplyUpdate(products[id], SoftDeleteUpdate)]

\* bodies of PATCH /api/products/:id/quantity
Operations == {"add", "subtract", "set"}

QuantityBodies ==
  { [quantity |-> a, operation |-> o] : a \in 0..MaxQty, o \in Operations }
  \cup { [quantity |-> 1] }
  \cup { [quantity |-> 0 - 1, operation |-> "set"], [operation |-> "add"],
         [quantity |-> 1, operation |-> "reset"] }

\* commonValidations.quantityUpdate, then the handler's own check of quantity
QuantityUpdateValid(body) ==
  /\ Has(body, "quantity") /\ body.quantity >= 0
  /\ Has(body, "operation") => body.operation \in Operations

\* const { quantity, operation = 'set' } = req.body
OperationOf(body) == IF Has(body, "operation") THEN body.operation ELSE "set"

\* the switch of updateQuantity
NewQuantity(q, a, operation) ==
  CASE operation = "add"      -> q + a
    [] operation = "subtract" -> Max(0, q - a)
    [] OTHER                  -> a

\* PATCH /api/products/:id/quantity
UpdateQuantity(u, id, body) ==
  LET r == [op |-> "quantity", user |-> u, id |-> id] IN
  /\ UNCHANGED <<users, reqs>>
  /\ IF ~QuantityUpdateValid(body)
     THEN /\ \E st \in ErrorStatuses("ValidationError") :
               resp' = r @@ [status |-> st, valid |-> FALSE]
          /\ UNCHANGED products
     ELSE IF id \notin ProductIds
     THEN resp' = r @@ [status |-> 404, valid |-> TRUE] /\ UNCHANGED products
     ELSE IF ~IsOwner(products[id], u)
     THEN resp' = r @@ [status |-> 403, valid |-> TRUE] /\ UNCHANGED products
     ELSE LET q == products[id].quantity
              n == NewQuantity(q, body.quantity, OperationOf(body))
          IN IF n # q /\ n < 0
             THEN \* save() validates the modified path quantity: min 0
                  /\ resp' = r @@ [status |-> 500, valid |-> TRUE, body |-> body]
                  /\ UNCHANGED products
             ELSE /\ n <= MaxQty
                  /\ products' = Store(id, [products[id] EXCEPT !.quantity = n])
                  /\ resp' = r @@ [status |-> 200, valid |-> TRUE, body |-> body,
                                   product |-> [products[id] EXCEPT !.quantity = n]]

\* mutant: ownership decided before existence, a missing document counts as foreign
GetProductOwnerFirst(u, id) ==
  LET r == [op |-> "get", user |-> u, id |-> id, valid |-> TRUE] IN
  /\ UNCHANGED <<users, reqs, products>>
  /\ IF id \notin ProductIds \/ ~IsOwner(products[id], u)
     THEN resp' = r @@ [status |-> 403]
     ELSE resp' = r @@ [status |-> 200, product |-> products[id]]

\* GET /api/products/:id
GetProduct(u, id) ==
  LET r == [op |-> "get", user |-> u, id |-> id, valid |-> TRUE] IN
  /\ UNCHANGED <<users, reqs, products>>
  /\ IF id \notin ProductIds
     THEN resp' = r @@ [status |-> 404]
     ELSE IF ~IsOwner(products[id], u)
     THEN resp' = r @@ [status |-> 403]
     ELSE resp' = r @@ [status |-> 200, product |-> products[id]]

DefaultPage == 1
DefaultLimit == 10

\* query strings of GET /api/products; a field the client did not send is absent
FilterQueries ==
  { c @@ t @@ lo @@ hi @@ st :
      c \in {<< >>, [category |-> <<"A">>]},
      t \in {<< >>, [search |-> <<"b", "B">>]},
      lo \in {<< >>, [minPrice |-> 1]},
      hi \in {<< >>, [maxPrice |-> 1]},
      st \in {<< >>, [stockStatus |-> "in-stock"], [stockStatus |-> "out-of-stock"],
              [stockStatus |-> "low-stock"]} }

PageQueries ==
  { so @@ pg :
      so \in {<< >>, [sortBy |-> "price", sortOrder |-> "asc"]},
      pg \in {[page |-> 1, limit |-> 1], [page |-> 2, limit |-> 1]} }

Queries == FilterQueries \cup PageQueries

\* mutant: the filter without the isActive condition
ListFilterAnyActive(p, u, q) ==
  /\ p.createdBy = u
  /\ Has(q, "category") => RegexMatchI(p.category, q.category)

\* the virtual stockStatus of a product document
StockStatus(p) ==
  IF p.quantity <= 0 THEN "out-of-stock"
  ELSE IF p.quantity <= p.minQuantity THEN "low-stock"
  ELSE "in-stock"

\* mutant: a stockStatus filter that selects by the virtual field
ListFilterByVirtual(p, u, q) ==
  /\ p.isActive = TRUE
  /\ p.createdBy = u
  /\ Has(q, "stockStatus") => StockStatus(p) = q.stockStatus

\* the filter object of getProducts, applied to one document
ListFilter(p, u, q) ==
  /\ p.isActive = TRUE
  /\ p.createdBy = u
  /\ (Has(q, "category") /\ Len(q.category) > 0) => RegexMatchI(p.category, q.category)
  /\ (Has(q, "search") /\ Len(q.search) > 0) =>
       \/ RegexMatchI(p.name, q.search)
       \/ RegexMatchI(p.description, q.search)
       \/ RegexMatchI(p.sku, q.search)
  /\ Has(q, "minPrice") => p.price >= q.minPrice
  /\ Has(q, "maxPrice") => p.price <= q.maxPrice
  /\ Has(q, "stockStatus") =>
       CASE q.stockStatus = "in-stock"     -> p.quantity > 0
         [] q.stockStatus = "out-of-stock" -> p.quantity = 0
         [] q.stockStatus = "low-stock"    -> p.quantity <= p.minQuantity
         [] OTHER                          -> TRUE

\* sort[sortBy] = sortOrder === 'desc' ? -1 : 1; createdAt grows with _id
SortKey(p, q) ==
  IF Has(q, "sortBy") /\ q.sortBy = "price" THEN p.price ELSE p._id

\* sortBy = 'createdAt', sortOrder = 'desc' unless the query names them
SortOf(q) ==
  [sortBy |-> IF Has(q, "sortBy") THEN q.sortBy ELSE "createdAt",
   sortOrder |-> IF Has(q, "sortOrder") THEN q.sortOrder ELSE "desc"]

\* p1 has to come before p2 in the order the query asks for
Before(p1, p2, q) ==
  LET desc == SortOf(q).sortOrder = "desc" IN
  IF desc THEN SortKey(p1, q) > SortKey(p2, q) ELSE SortKey(p1, q) < SortKey(p2, q)

\* .sort(sort): the orders the database may return the documents of S in; the
\* order of documents with equal keys is the database's choice for each query
SortDocs(S, q) ==
  LET n == Cardinality(S) IN
  { s \in [1..n -> S] :
      /\ \A i, j \in 1..n : i # j => s[i] # s[j]
      /\ \A i, j \in 1..n : i < j => ~Before(s[j], s[i], q) }

CeilDiv(a, b) == (a + b - 1) \div b

\* GET /api/products
GetProducts(u, q) ==
  LET page == IF Has(q, "page") THEN q.page ELSE DefaultPage
      limit == IF Has(q, "limit") THEN q.limit ELSE DefaultLimit
      matching == { products[i] : i \in { j \in ProductIds : ListFilter(products[j], u, q) } }
      skip == (page - 1) * limit
      total == Cardinality(matching)
  IN
  /\ UNCHANGED <<users, reqs, products>>
  /\ \E sorted \in SortDocs(matching, q) :
       LET docs == SubSeq(sorted, skip + 1, Min(skip + limit, total)) IN
       resp' = [op |-> "list", user |-> u, id |-> 0, status |-> 200, valid |-> TRUE,
                sort |-> SortOf(q), limit |-> limit, products |-> docs,
                stockStatus |-> IF Has(q, "stockStatus") THEN q.stockStatus ELSE "",
                pagination |-> [currentPage |-> page,
                                totalPages |-> CeilDiv(total, limit),
                                totalProducts |-> total,
                                hasNextPage |-> skip + Len(docs) < total,
                                hasPrevPage |-> page > 1]]

InitUsers ==
  << [_id |-> 1, username |-> <<"a">>, email |-> <<"a">>, password |-> <<"h", "p">>,
      role |-> "user", isActive |-> TRUE],
     [_id |-> 2, username |-> <<"b">>, email |-> <<"b">>, password |-> <<"h", "q">>,
      role |-> "user", isActive |-> TRUE] >>

Init ==
  /\ users = InitUsers
  /\ products = << >>
  /\ reqs = EmptyBag
  /\ resp = NoResp
  /\ softDeleted = {}
  /\ hits = NoHits
  /\ passed = NoHits

Next ==
  \/ \E u \in UserIds, body \in CreateBodies :
       CreateProduct(u, body) /\ UNCHANGED <<softDeleted, hits, passed>>
  \/ \E u \in UserIds, id \in IdInputs, body \in UpdateBodies :
       UpdateProduct(u, id, body) /\ UNCHANGED <<softDeleted, hits, passed>>
  \/ \E u \in UserIds, id \in IdInputs :
       DeleteProduct(u, id) /\ UNCHANGED <<softDeleted, hits, passed>>
  \/ \E u \in UserIds, id \in IdInputs, body \in QuantityBodies :
       UpdateQuantity(u, id, body) /\ UNCHANGED <<softDeleted, hits, passed>>
  \/ \E u \in UserIds, id \in IdInputs :
       GetProduct(u, id) /\ UNCHANGED <<softDeleted, hits, passed>>

Spec == Init /\ [][Next]_vars

(***************************************************************************)
(* The list endpoint over a store that creates, adjusts and soft-deletes.  *)
(***************************************************************************)
ListCreateBodies ==
  { FullBody(<<"a">>, 1), PlainBody(<<"b">>, 0),
    WithField(PlainBody(<<"b">>, 1), "isActive", FALSE) }

ListQuantityBodies == { [quantity |-> 1], [quantity |-> 1, operation |-> "subtract"] }

NextList ==
  \/ \E u \in UserIds, body \in ListCreateBodies :
       CreateProduct(u, body) /\ UNCHANGED <<softDeleted, hits, passed>>
  \/ \E u \in UserIds, id \in IdInputs :
       DeleteProduct(u, id) /\ UNCHANGED <<softDeleted, hits, passed>>
  \/ \E u \in UserIds, id \in IdInputs, body \in ListQuantityBodies :
       UpdateQuantity(u, id, body) /\ UNCHANGED <<softDeleted, hits, passed>>
  \/ \E u \in UserIds, q \in Queries :
       GetProducts(u, q) /\ UNCHANGED <<softDeleted, hits, passed>>

SpecList == Init /\ [][NextList]_vars

(***************************************************************************)
(* The product life cycle: softDeleted records the ids a DELETE has been   *)
(* answered 200 for.                                                       *)
(***************************************************************************)
RecordDeleted ==
  /\ softDeleted' = IF resp'.op = "delete" /\ resp'.status = 200
                    THEN softDeleted \cup {resp'.id}
                    ELSE softDeleted
  /\ UNCHANGED <<hits, passed>>

LifeUpdateBodies == { [isActive |-> TRUE], [quantity |-> 0], [sku |-> <<"a">>] }

LifeQueries == { << >>, [stockStatus |-> "out-of-stock"] }

NextLife ==
  \/ \E u \in UserIds, body \in ListCreateBodies :
       CreateProduct(u, body) /\ RecordDeleted
  \/ \E u \in UserIds, id \in IdInputs, body \in LifeUpdateBodies :
       UpdateProduct(u, id, body) /\ RecordDeleted
  \/ \E u \in UserIds, id \in IdInputs :
       DeleteProduct(u, id) /\ RecordDeleted
  \/ \E u \in UserIds, id \in IdInputs, body \in ListQuantityBodies :
       UpdateQuantity(u, id, body) /\ RecordDeleted
  \/ \E u \in UserIds, id \in IdInputs :
       GetProduct(u, id) /\ RecordDeleted
  \/ \E u \in UserIds, q \in LifeQueries :
       GetProducts(u, q) /\ RecordDeleted

SpecLife == Init /\ [][NextLife]_vars

(***************************************************************************)
(* Properties of the inventory store.                                      *)
(***************************************************************************)
ByIdOps == {"get", "update", "delete", "quantity"}

\* the step answered a request on a stored product made by someone else than its owner
ForeignRequest ==
  /\ resp'.id \in DOMAIN products
  /\ products[resp'.id].createdBy # resp'.user

\* C2: an update, soft delete or quantity adjustment (with a body that passes the
\* route's validation) by a user who is not the owner of the stored product is
\* answered 403 and leaves every stored product exactly as it was.
C2_NonOwnerRejected ==
  [][ (resp'.op \in {"update", "delete", "quantity"} /\ resp'.valid /\ ForeignRequest)
        => (resp'.status = 403 /\ products' = products) ]_vars

C2_Witness ==
  /\ resp.op \in {"update", "delete", "quantity"}
  /\ resp.status = 403
  /\ resp.id \in DOMAIN products
  /\ products[resp.id].createdBy # resp.user
  /\ products[resp.id].isActive

\* C3: for getById, update, softDelete and adjustQuantity (with a body that passes
\* validation) existence is checked before ownership: an id of no stored product
\* yields 404 whoever asks, the id of another user's product yields 403, and a
\* success response goes to the owner alone.
C3_ExistenceBeforeOwnership ==
  [][ (resp'.op \in ByIdOps /\ resp'.valid) =>
        /\ resp'.id \notin DOMAIN products => resp'.status = 404
        /\ ForeignRequest => resp'.status = 403
        /\ resp'.status = 200 =>
             (resp'.id \in DOMAIN products /\ products[resp'.id].createdBy = resp'.user)
        /\ resp'.status = 404 => resp'.id \notin DOMAIN products ]_vars

C3_Witness ==
  /\ resp.op = "get"
  /\ resp.status = 404
  /\ Len(products) > 0
  /\ \E i \in DOMAIN products : products[i].createdBy # resp.user

\* C4: createdBy is the requester's id at creation, whatever the body holds, and
\* no request ever changes the createdBy of a stored product.
C4_OwnerNeverChanges ==
  [][ /\ (resp'.op = "create" /\ resp'.status = 201 /\ Len(products') > Len(products))
         => products'[Len(products')].createdBy = resp'.user
      /\ \A i \in DOMAIN products : products'[i].createdBy = products[i].createdBy ]_vars

\* the quantity the specification gives for an adjustment of q by a
SpecifiedQuantity(q, body) ==
  IF Has(body, "operation") /\ body.operation = "add" THEN q + body.quantity
  ELSE IF Has(body, "operation") /\ body.operation = "subtract"
       THEN (IF body.quantity > q THEN 0 ELSE q - body.quantity)
  ELSE body.quantity

\* C7: a quantity adjustment by the owner with a non-negative amount a on a product
\* with stored quantity q stores q+a for add, max(0, q-a) for subtract and a for
\* set or an omitted operation.
C7_QuantityArithmetic ==
  [][ (/\ resp'.op = "quantity" /\ resp'.valid
       /\ resp'.id \in DOMAIN products
       /\ products[resp'.id].createdBy = resp'.user)
        => products'[resp'.id].quantity =
             SpecifiedQuantity(products[resp'.id].quantity, resp'.body) ]_vars

\* C8: every stored product has quantity >= 0, price >= 0 and cost >= 0.
C8_NonNegative ==
  \A i \in DOMAIN products :
    products[i].quantity >= 0 /\ products[i].price >= 0 /\ products[i].cost >= 0

(***************************************************************************)
(* Properties of the list endpoint and of the life cycle.                  *)
(***************************************************************************)
ListedIds == { resp.products[k]._id : k \in 1..Len(resp.products) }

\* C1: whatever the filters, sort and page, the list answered to a user holds only
\* documents whose createdBy is that user and whose isActive is true.
C1_ListOwnActiveOnly ==
  resp.op = "list" =>
    \A k \in 1..Len(resp.products) :
      /\ resp.products[k].createdBy = resp.user
      /\ resp.products[k].isActive = TRUE
      /\ resp.products[k] = products[resp.products[k]._id]

C1_Witness ==
  /\ resp.op = "list"
  /\ Len(resp.products) = 1
  /\ Len(products) = 2
  /\ \E i \in DOMAIN products : products[i].createdBy # resp.user /\ products[i].isActive
  /\ resp.pagination.totalProducts = 1

\* C5 as claimed: once isActive is false no request sets it back to true.
C5_ActiveMonotone ==
  [][ \A i \in DOMAIN products :
        products[i].isActive = FALSE => products'[i].isActive = FALSE ]_vars

\* C5 amended: the only step that takes isActive from false to true is an update
\* answered 200 to the owner of the product whose body sets isActive to true;
\* create, soft delete, quantity adjustment and requests of other users never do.
C5_ReactivationOnlyByOwnerUpdate ==
  [][ \A i \in DOMAIN products :
        (products[i].isActive = FALSE /\ products'[i].isActive = TRUE) =>
          /\ resp'.op = "update" /\ resp'.status = 200 /\ resp'.id = i
          /\ resp'.user = products[i].createdBy
          /\ Has(resp'.body, "isActive") /\ resp'.body.isActive = TRUE ]_vars

C5_Witness ==
  /\ resp.op = "update" /\ resp.status = 200
  /\ Has(resp.body, "isActive") /\ resp.body.isActive = TRUE
  /\ resp.id \in softDeleted
  /\ products[resp.id].isActive = TRUE

\* what a soft delete answers and leaves, and what getById answers afterwards
SoftDeleteEffect ==
  /\ (resp.op = "delete" /\ resp.status = 200) =>
       /\ resp.product.isActive = FALSE
       /\ resp.product = products[resp.id]
  /\ softDeleted \subseteq DOMAIN products
  /\ (resp.op = "get" /\ resp.id \in softDeleted
        /\ resp.user = products[resp.id].createdBy) =>
       (resp.status = 200 /\ resp.product = products[resp.id])

\* C6 as claimed: a soft delete sets isActive false and answers the inactive record,
\* the record stays stored and fetchable by its owner, and the product is in no
\* later list result.
C6_SoftDeletedNeverListed ==
  /\ SoftDeleteEffect
  /\ resp.op = "list" => ListedIds \cap softDeleted = {}

\* C6 amended: as claimed, except that the product is absent from the list results
\* for as long as isActive stays false (an update by its owner may set it back).
C6_SoftDeletedHiddenWhileInactive ==
  /\ SoftDeleteEffect
  /\ resp.op = "list" =>
       \A i \in ListedIds \cap softDeleted : products[i].isActive = TRUE

C6_Witness ==
  /\ resp.op = "list"
  /\ Len(resp.products) = 1
  /\ \E i \in softDeleted :
       products[i].createdBy = resp.user /\ products[i].isActive = FALSE

(***************************************************************************)
(* The credential store: register, login and updateProfile.  A handler     *)
(* that awaits the database more than once is one action per part between  *)
(* two awaits, so that requests interleave as they do on the event loop.   *)
(***************************************************************************)
UsernameMinLen == 3

UsernameMaxLen == 30

PasswordMinLen == 6

LowerChars == {"a", "b", "c", "x"}

UpperChars == {"A", "B"}

DigitChars == {"1"}

\* /^[a-zA-Z0-9_]+$/
UsernameChars == LowerChars \cup UpperChars \cup DigitChars \cup {"_"}

\* isEmail, reduced to: one "@" with something on both sides
IsEmail(e) ==
  \E i \in 2..(Len(e) - 1) :
    /\ e[i] = "@"
    /\ \A j \in 1..Len(e) : j # i => e[j] \in LowerChars \cup UpperChars \cup DigitChars

\* normalizeEmail (and the schema's lowercase: true), reduced to lower-casing
NormalizeEmail(e) == LowerStr(e)

\* bcrypt.hash: the stored value is never the plain text
Hash(p) == <<"$">> \o p

\* userSchema.methods.comparePassword
ComparePassword(candidate, stored) == stored = Hash(candidate)

\* mutant: a serialization that keeps every field of the document
UserJSONWhole(doc) == doc

\* user.toJSON(): the document without its password
UserJSON(doc) ==
  [_id |-> doc._id, username |-> doc.username, email |-> doc.email,
   role |-> doc.role, isActive |-> doc.isActive]

\* generateToken(user._id)
GenerateToken(id) == [userId |-> id]

GoodPassword == <<"A", "a", "1", "a", "a", "a">>

OtherPassword == <<"B", "b", "1", "b", "b", "b">>

EmailInputs == {<<"a", "@", "x">>, <<"A", "@", "x">>, <<"b", "@", "x">>}

UsernameInputs == {<<"a", "b", "c">>, <<"a", "b", "x">>}

RegisterBodies ==
  {[username |-> n, email |-> e, password |-> GoodPassword] :
     n \in UsernameInputs, e \in EmailInputs}
  \cup {[username |-> <<"a", "b">>, email |-> <<"a", "@", "x">>, password |-> GoodPassword],
        [username |-> <<"a", "b", "c">>, email |-> <<"a", "@", "x">>, password |-> <<"a">>],
        [username |-> <<"a", "b", "x">>, email |-> <<"b", "@", "x">>,
         password |-> GoodPassword, role |-> "admin"]}

\* commonValidations.userRegister
UserRegisterValid(body) ==
  /\ Has(body, "username")
  /\ Len(body.username) >= UsernameMinLen /\ Len(body.username) <= UsernameMaxLen
  /\ \A i \in 1..Len(body.username) : body.username[i] \in UsernameChars
  /\ Has(body, "email") /\ IsEmail(body.email)
  /\ Has(body, "password")
  /\ Len(body.password) >= PasswordMinLen
  /\ \E i \in 1..Len(body.password) : body.password[i] \in LowerChars
  /\ \E i \in 1..Len(body.password) : body.password[i] \in UpperChars
  /\ \E i \in 1..Len(body.password) : body.password[i] \in DigitChars

\* the sanitizers of the chain rewrite req.body
Sanitize(body) ==
  IF Has(body, "email") THEN [body EXCEPT !.email = NormalizeEmail(@)] ELSE body

\* mutant: the collection without its unique indexes
NoUniqueIndex(field, value, exceptId) == TRUE

\* unique: true on username and on email: no other document holds the value
UniqueIndexOk(field, value, exceptId) ==
  \A i \in DOMAIN users : i # exceptId => users[i][field] # value

\* a request between two awaits: where it resumes, its req.user and its req.body
Req(pc, uid, body, me) == [pc |-> pc, uid |-> uid, body |-> body, me |-> me]

NoUser == [username |-> << >>, email |-> << >>]

\* the requests in flight once q has run up to its next await (as q2) or has answered
Resume(q, q2) == (reqs (-) SetToBag({q})) (+) SetToBag({q2})

Answered(q) == reqs (-) SetToBag({q})

AuthResp(op, u) == [op |-> op, user |-> u, id |-> 0, valid |-> TRUE]

\* register, up to the answer of User.findOne({ $or: [{ email }, { username }] })
RegisterStart(body) ==
  LET r == AuthResp("register", 0)
      b == Sanitize(body)
      matches == { i \in DOMAIN users :
                     users[i].email = b.email \/ users[i].username = b.username }
  IN
  /\ BagCardinality(reqs) < MaxReqs
  /\ UNCHANGED <<users, products>>
  /\ IF ~UserRegisterValid(body)
     THEN /\ \E st \in ErrorStatuses("ValidationError") :
               resp' = [r EXCEPT !.valid = FALSE] @@ [status |-> st, error |-> "ValidationError"]
          /\ UNCHANGED reqs
     ELSE IF matches # {}
     THEN /\ \E i \in matches, st \in ErrorStatuses("ConflictError") :
               resp' = r @@ [status |-> st, error |-> "ConflictError",
                             message |-> IF users[i].email = b.email
                                         THEN "Email is already registered"
                                         ELSE "Username is already taken",
                             username |-> b.username, email |-> b.email]
          /\ UNCHANGED reqs
     ELSE /\ reqs' = reqs (+) SetToBag({Req("save", 0, b, NoUser)})
          /\ UNCHANGED resp

\* mutant: a register that gives every new account the role user
RoleOfIgnored(b) == "user"

\* role: role || 'user'
RoleOf(b) == IF Has(b, "role") /\ b.role # "" THEN b.role ELSE "user"

\* the enum of the role path
Roles == {"user", "admin"}

\* register, from user.save() to the response
RegisterSave(q) ==
  LET r == AuthResp("register", 0)
      b == q.body
      id == Len(users) + 1
      doc == [_id |-> id, username |-> b.username, email |-> LowerStr(b.email),
              password |-> Hash(b.password),
              role |-> RoleOf(b),
              isActive |-> TRUE]
  IN
  /\ q.pc = "save"
  /\ reqs' = Answered(q)
  /\ UNCHANGED products
  /\ IF doc.role \notin Roles
     THEN /\ \E st \in ErrorStatuses("ValidationError") :
               resp' = r @@ [status |-> st, error |-> "ValidationError"]
          /\ UNCHANGED users
     ELSE IF ~(UniqueIndexOk("email", doc.email, 0) /\ UniqueIndexOk("username", doc.username, 0))
     THEN /\ \E st \in ErrorStatuses("DuplicateKey") :
               resp' = r @@ [status |-> st, error |-> "DuplicateKey"]
          /\ UNCHANGED users
     ELSE /\ Len(users) < MaxUsers
          /\ users' = Append(users, doc)
          /\ resp' = r @@ [status |-> 201, message |-> "User registered successfully",
                           userDoc |-> UserJSON(doc), token |-> GenerateToken(id)]

LoginBodies ==
  {[email |-> e, password |-> w] : e \in EmailInputs, w \in {GoodPassword, OtherPassword}}
  \cup {[email |-> <<"a">>, password |-> GoodPassword],
        [email |-> <<"a", "@", "x">>, password |-> << >>]}

\* commonValidations.userLogin
UserLoginValid(body) ==
  /\ Has(body, "email") /\ IsEmail(body.email)
  /\ Has(body, "password") /\ Len(body.password) > 0

\* mutant: an answer that tells an unregistered email from a wrong password
UnknownEmailMessageTelling == "No account with this email"

\* the message thrown when findOne({ email }) finds nobody
UnknownEmailMessage == "Email or password is incorrect"

\* the message thrown when comparePassword answers false
WrongPasswordMessage == "Email or password is incorrect"

DisabledMessage == "Your account has been disabled. Please contact administrator."

\* mutant: a login that compares the password before it reads the active flag
LoginPasswordFirst(body) ==
  LET r == AuthResp("login", 0)
      b == Sanitize(body)
      matches == { i \in DOMAIN users : users[i].email = b.email }
      fail(m) == \E st \in ErrorStatuses("AuthenticationError") :
                   resp' = r @@ [status |-> st, error |-> "AuthenticationError",
                                 body |-> b, message |-> m]
  IN
  /\ UNCHANGED <<users, products, reqs>>
  /\ IF ~UserLoginValid(body)
     THEN \E st \in ErrorStatuses("ValidationError") :
            resp' = [r EXCEPT !.valid = FALSE] @@ [status |-> st, error |-> "ValidationError"]
     ELSE IF matches = {}
     THEN fail(UnknownEmailMessage)
     ELSE \E i \in matches :
            IF ~ComparePassword(b.password, users[i].password)
            THEN fail(WrongPasswordMessage)
            ELSE IF ~users[i].isActive
            THEN fail(DisabledMessage)
            ELSE resp' = r @@ [status |-> 200, body |-> b, message |-> "Login successful",
                               userDoc |-> UserJSON(users[i]), token |-> GenerateToken(i)]

\* POST /api/auth/login
Login(body) ==
  LET r == AuthResp("login", 0)
      b == Sanitize(body)
      matches == { i \in DOMAIN users : users[i].email = b.email }
      fail(m) == \E st \in ErrorStatuses("AuthenticationError") :
                   resp' = r @@ [status |-> st, error |-> "AuthenticationError",
                                 body |-> b, message |-> m]
  IN
  /\ UNCHANGED <<users, products, reqs>>
  /\ IF ~UserLoginValid(body)
     THEN \E st \in ErrorStatuses("ValidationError") :
            resp' = [r EXCEPT !.valid = FALSE] @@ [status |-> st, error |-> "ValidationError"]
     ELSE IF matches = {}
     THEN fail(UnknownEmailMessage)
     ELSE \E i \in matches :
            IF ~users[i].isActive
            THEN fail(DisabledMessage)
            ELSE IF ~ComparePassword(b.password, users[i].password)
            THEN fail(WrongPasswordMessage)
            ELSE resp' = r @@ [status |-> 200, body |-> b, message |-> "Login successful",
                               userDoc |-> UserJSON(users[i]), token |-> GenerateToken(i)]

\* what an update does with a key whose value is undefined depends on the
\* versions of the validator chain and of the driver: the key is dropped, or
\* the update is refused by the required validator
UndefinedKeyOutcomes == {"dropped", "refused"}

\* the auth gate of PUT /api/auth/profile for a valid token of user u, and the
\* sanitizers of userRegister.slice(0, -1), whose verdict nobody reads
ProfileStart(u, body) ==
  /\ BagCardinality(reqs) < MaxReqs
  /\ u \in DOMAIN users
  /\ users[u].isActive
  /\ reqs' = reqs (+) SetToBag({Req("checkEmail", u, Sanitize(body),
                                    [username |-> users[u].username,
                                     email |-> users[u].email])})
  /\ UNCHANGED <<users, products, resp>>

\* updateProfile: the email duplicate check
ProfileCheckEmail(q) ==
  LET r == AuthResp("profile", q.uid)
  IN
  /\ q.pc = "checkEmail"
  /\ UNCHANGED <<users, products>>
  /\ IF /\ Has(q.body, "email") /\ q.body.email # q.me.email
        /\ \E i \in DOMAIN users : i # q.uid /\ users[i].email = q.body.email
     THEN /\ \E st \in ErrorStatuses("ConflictError") :
               resp' = r @@ [status |-> st, error |-> "ConflictError",
                             message |-> "This email is already registered by another user"]
          /\ reqs' = Answered(q)
     ELSE /\ reqs' = Resume(q, [q EXCEPT !.pc = "checkUsername"])
          /\ UNCHANGED resp

\* mutant: updateProfile without its username duplicate check
ProfileCheckUsernameSkipped(q) ==
  /\ q.pc = "checkUsername"
  /\ reqs' = Resume(q, [q EXCEPT !.pc = "update"])
  /\ UNCHANGED <<users, products, resp>>

\* updateProfile: the username duplicate check
ProfileCheckUsername(q) ==
  LET r == AuthResp("profile", q.uid)
  IN
  /\ q.pc = "checkUsername"
  /\ UNCHANGED <<users, products>>
  /\ IF /\ Has(q.body, "username") /\ q.body.username # q.me.username
        /\ \E i \in DOMAIN users : i # q.uid /\ users[i].username = q.body.username
     THEN /\ \E st \in ErrorStatuses("ConflictError") :
               resp' = r @@ [status |-> st, error |-> "ConflictError",
                             message |-> "This username is already taken by another user"]
          /\ reqs' = Answered(q)
     ELSE /\ reqs' = Resume(q, [q EXCEPT !.pc = "update"])
          /\ UNCHANGED resp

\* the schema validators that runValidators applies to the keys of the update
ProfileValidatorsPass(body) ==
  /\ Has(body, "username") =>
       (Len(body.username) >= UsernameMinLen /\ Len(body.username) <= UsernameMaxLen)
  /\ Has(body, "email") => IsEmail(body.email)

\* updateProfile: findByIdAndUpdate(userId, { username, email }, ...) and the response
ProfileUpdate(q) ==
  LET r == AuthResp("profile", q.uid)
      old == users[q.uid]
      doc == [old EXCEPT
                !.username = IF Has(q.body, "username") THEN q.body.username ELSE @,
                !.email = IF Has(q.body, "email") THEN LowerStr(q.body.email) ELSE @]
      refuse(kind, sts) == /\ \E st \in sts :
                                resp' = r @@ [status |-> st, error |-> kind]
                           /\ UNCHANGED users
  IN
  /\ q.pc = "update"
  /\ reqs' = Answered(q)
  /\ UNCHANGED products
  /\ \E und \in UndefinedKeyOutcomes :
       IF \/ ~ProfileValidatorsPass(q.body)
          \/ (und = "refused" /\ ~(Has(q.body, "username") /\ Has(q.body, "email")))
       THEN refuse("SchemaValidation",
                   ErrorStatuses("ValidationError") \cup ErrorStatuses("Unhandled"))
       ELSE IF ~(/\ UniqueIndexOk("email", doc.email, q.uid)
                 /\ UniqueIndexOk("username", doc.username, q.uid))
       THEN refuse("DuplicateKey", ErrorStatuses("DuplicateKey"))
       ELSE /\ users' = [users EXCEPT ![q.uid] = doc]
            /\ resp' = r @@ [status |-> 200,
                             message |-> "Profile updated successfully",
                             userDoc |-> UserJSON(doc)]

\* the requests in flight
InFlight == BagToSet(reqs)

InitAuth ==
  /\ users = << >>
  /\ products = << >>
  /\ reqs = EmptyBag
  /\ resp = NoResp
  /\ softDeleted = {}
  /\ hits = NoHits
  /\ passed = NoHits

\* the registrations and profile updates that race
RaceRegisterBodies ==
  {[username |-> <<"a", "b", "c">>, email |-> <<"a", "@", "x">>, password |-> GoodPassword],
   [username |-> <<"a", "b", "x">>, email |-> <<"A", "@", "x">>, password |-> GoodPassword],
   [username |-> <<"a", "b", "c">>, email |-> <<"b", "@", "x">>, password |-> GoodPassword],
   [username |-> <<"a", "b">>, email |-> <<"a", "@", "x">>, password |-> GoodPassword]}

ProfileBodies ==
  {[username |-> <<"a", "b", "x">>, email |-> <<"B", "@", "x">>],
   [email |-> <<"a", "@", "x">>],
   [username |-> <<"a", "b">>, email |-> <<"a", "@", "x">>]}

NextAuth ==
  \/ \E body \in RaceRegisterBodies : RegisterStart(body) /\ UNCHANGED <<softDeleted, hits, passed>>
  \/ \E q \in InFlight : RegisterSave(q) /\ UNCHANGED <<softDeleted, hits, passed>>
  \/ \E u \in 1..MaxUsers, body \in ProfileBodies :
       ProfileStart(u, body) /\ UNCHANGED <<softDeleted, hits, passed>>
  \/ \E q \in InFlight : ProfileCheckEmail(q) /\ UNCHANGED <<softDeleted, hits, passed>>
  \/ \E q \in InFlight : ProfileCheckUsername(q) /\ UNCHANGED <<softDeleted, hits, passed>>
  \/ \E q \in InFlight : ProfileUpdate(q) /\ UNCHANGED <<softDeleted, hits, passed>>

SpecAuth == InitAuth /\ [][NextAuth]_vars

\* registrations and logins, with every login input
NextLogin ==
  \/ \E body \in RegisterBodies : RegisterStart(body) /\ UNCHANGED <<softDeleted, hits, passed>>
  \/ \E q \in InFlight : RegisterSave(q) /\ UNCHANGED <<softDeleted, hits, passed>>
  \/ \E body \in LoginBodies : Login(body) /\ UNCHANGED <<softDeleted, hits, passed>>

SpecLogin == InitAuth /\ [][NextLogin]_vars

(***************************************************************************)
(* Properties of the credential store.                                     *)
(***************************************************************************)
\* C9: no two stored users share an email or a username, whatever the interleaving
\* of register and updateProfile requests, and a registration that reaches the store
\* when its email is already held ends in an error and creates nothing.
C9_UniqueEmailAndUsername ==
  [][ /\ \A i, j \in DOMAIN users' :
           i # j => (users'[i].email # users'[j].email
                     /\ users'[i].username # users'[j].username)
      /\ \A q \in InFlight :
           (/\ q.pc = "save" /\ CopiesIn(q, reqs') < CopiesIn(q, reqs)
            /\ \E i \in DOMAIN users : users[i].email = q.body.email)
           => (/\ resp'.op = "register"
               /\ resp'.status >= 400
               /\ users' = users) ]_vars

C9_Witness ==
  /\ resp.op = "register"
  /\ Has(resp, "error") /\ resp.error = "DuplicateKey"
  /\ Len(users) = 1

\* which case of login a request falls in, from the store
LoginCase(body) ==
  LET matches == { i \in DOMAIN users : users[i].email = body.email } IN
  IF matches = {} THEN "unknown"
  ELSE IF \E i \in matches : users[i].isActive /\ ~ComparePassword(body.password, users[i].password)
  THEN "wrong"
  ELSE "other"

\* C10: a login with an email of no user and a login with the email of an active user
\* and a wrong password are both answered 401 with the message 'Email or password is
\* incorrect' and with neither a user nor a token.
C10_LoginFailuresAlike ==
  (resp.op = "login" /\ resp.valid /\ LoginCase(resp.body) \in {"unknown", "wrong"}) =>
    /\ resp.status = 401
    /\ resp.message = "Email or password is incorrect"
    /\ ~Has(resp, "token") /\ ~Has(resp, "userDoc")

C10_Witness ==
  /\ resp.op = "login" /\ resp.valid
  /\ LoginCase(resp.body) = "wrong"
  /\ resp.status = 401
  /\ \E i \in DOMAIN users : users[i].email # resp.body.email

(***************************************************************************)
(* The authorization gate (middleware/auth.js) in front of the protected   *)
(* routes, and what happens to accounts outside the API.                   *)
(***************************************************************************)
\* what the Authorization header of a request carries: nothing, a string that is
\* no JWT, a JWT signed with another secret, or a JWT this server has signed,
\* read before or after its expiry
BearerKinds == {"none", "malformed", "forged", "expired", "signed"}

Bearers ==
  {[kind |-> "none"], [kind |-> "malformed"]}
  \cup {[kind |-> k, userId |-> u] : k \in {"forged", "expired", "signed"}, u \in 1..MaxUsers}

\* a token of this server exists for the users that have registered
Issued(b) == b.kind \in {"expired", "signed"} => b.userId \in DOMAIN users

\* mutant: a verification that does not look at the expiry
JwtVerifyNoExpiry(b) ==
  IF b.kind \in {"malformed", "forged"} THEN "JsonWebTokenError" ELSE "ok"

\* jwt.verify(token, JWT_SECRET): the name of the error it throws, or "ok"
JwtVerify(b) ==
  CASE b.kind \in {"malformed", "forged"} -> "JsonWebTokenError"
    [] b.kind = "expired"                 -> "TokenExpiredError"
    [] OTHER                              -> "ok"

\* what is left at the _id of a document that was removed: ids are never reused,
\* and no query matches the place
Removed(i) ==
  [_id |-> i, username |-> << >>, email |-> << >>, password |-> << >>,
   role |-> "removed", isActive |-> FALSE]

\* User.findById(id): the ids of the documents found
FindById(id) == { i \in DOMAIN users : i = id /\ users[i] # Removed(i) }

NoTokenText == "Access denied. No token provided."

InvalidTokenText == "Invalid token."

ExpiredTokenText == "Token expired."

NoUserText == "Invalid token. User not found or inactive."

Rejected(text) == [pass |-> FALSE, status |-> 401, error |-> text]

\* mutant: a gate that trusts the token and does not read the user again
AuthGateTokenOnly(b) ==
  IF b.kind = "none" THEN Rejected(NoTokenText)
  ELSE IF JwtVerify(b) = "JsonWebTokenError" THEN Rejected(InvalidTokenText)
  ELSE IF JwtVerify(b) = "TokenExpiredError" THEN Rejected(ExpiredTokenText)
  ELSE [pass |-> TRUE, user |-> UserJSON(users[b.userId])]

\* auth: the response it sends, or the req.user it calls next() with
AuthGate(b) ==
  IF b.kind = "none" THEN Rejected(NoTokenText)
  ELSE IF JwtVerify(b) = "JsonWebTokenError" THEN Rejected(InvalidTokenText)
  ELSE IF JwtVerify(b) = "TokenExpiredError" THEN Rejected(ExpiredTokenText)
  ELSE IF FindById(b.userId) = {} \/ ~users[b.userId].isActive
  THEN Rejected(NoUserText)
  ELSE [pass |-> TRUE, user |-> UserJSON(users[b.userId])]

\* the response of the gate when it does not call next(): { error: text }
GateResp(b, g) ==
  [op |-> "gate", user |-> 0, id |-> 0, valid |-> TRUE, status |-> g.status,
   json |-> [error |-> g.error], bearer |-> b]

\* GET /api/auth/profile: auth, then getProfile
GetProfile(b) ==
  LET g == AuthGate(b) IN
  /\ Issued(b)
  /\ UNCHANGED <<users, products, reqs>>
  /\ IF ~g.pass
     THEN resp' = GateResp(b, g)
     ELSE resp' = [op |-> "getProfile", user |-> g.user._id, id |-> 0, valid |-> TRUE,
                   status |-> 200, message |-> "Profile retrieved successfully",
                   userDoc |-> g.user, bearer |-> b]

\* an account is deactivated in the database (no route of the API does it)
DeactivateUser(u) ==
  /\ u \in DOMAIN users
  /\ users[u].isActive
  /\ users' = [users EXCEPT ![u].isActive = FALSE]
  /\ UNCHANGED <<products, reqs, resp>>

\* User.deleteMany({}): every user document is removed
DeleteManyUsers ==
  /\ \E i \in DOMAIN users : users[i] # Removed(i)
  /\ users' = [i \in DOMAIN users |-> Removed(i)]
  /\ UNCHANGED <<products, reqs, resp>>

GateRegisterBodies ==
  {[username |-> <<"a", "b", "c">>, email |-> <<"a", "@", "x">>, password |-> GoodPassword],
   [username |-> <<"a", "b", "x">>, email |-> <<"b", "@", "x">>, password |-> GoodPassword]}

GateLoginBodies ==
  {[email |-> e, password |-> w] :
     e \in {<<"a", "@", "x">>, <<"b", "@", "x">>}, w \in {GoodPassword, OtherPassword}}

NextGate ==
  \/ \E body \in GateRegisterBodies : RegisterStart(body) /\ UNCHANGED <<softDeleted, hits, passed>>
  \/ \E q \in InFlight : RegisterSave(q) /\ UNCHANGED <<softDeleted, hits, passed>>
  \/ \E body \in GateLoginBodies : Login(body) /\ UNCHANGED <<softDeleted, hits, passed>>
  \/ \E b \in Bearers : GetProfile(b) /\ UNCHANGED <<softDeleted, hits, passed>>
  \/ \E u \in 1..MaxUsers : DeactivateUser(u) /\ UNCHANGED <<softDeleted, hits, passed>>
  \/ DeleteManyUsers /\ UNCHANGED <<softDeleted, hits, passed>>

SpecGate == InitAuth /\ [][NextGate]_vars

(***************************************************************************)
(* Properties of the authorization gate.                                   *)
(***************************************************************************)
\* the case a request is in, from its Authorization header and the store
GateCase(b) ==
  IF b.kind = "none" THEN "no token"
  ELSE IF b.kind \in {"malformed", "forged"} THEN "bad token"
  ELSE IF b.kind = "expired" THEN "expired"
  ELSE IF \E i \in DOMAIN users : i = b.userId /\ users[i].role # "removed" /\ users[i].isActive
  THEN "ok"
  ELSE "no user"

GateText(c) ==
  CASE c = "no token"  -> "Access denied. No token provided."
    [] c = "bad token" -> "Invalid token."
    [] c = "expired"   -> "Token expired."
    [] c = "no user"   -> "Invalid token. User not found or inactive."
    [] OTHER           -> ""

\* C11: a request without token, with a malformed or wrongly signed token, with an
\* expired token, or with a valid token of an absent or inactive user is answered
\* 401 by the gate with the message of its case (four different messages) and no
\* handler runs; a valid unexpired token of an active user reaches the handler with
\* that user, without password.
C11_GateCases ==
  [][ (resp' # resp /\ Has(resp', "bearer")) =>
        LET c == GateCase(resp'.bearer) IN
        /\ Cardinality({GateText(k) : k \in {"no token", "bad token", "expired", "no user"}}) = 4
        /\ c # "ok" => /\ resp'.op = "gate"
                       /\ resp'.status = 401
                       /\ resp'.json.error = GateText(c)
                       /\ ~Has(resp', "userDoc")
        /\ c = "ok" => /\ resp'.op = "getProfile"
                       /\ resp'.status = 200
                       /\ resp'.userDoc._id = resp'.bearer.userId
                       /\ resp'.userDoc.email = users[resp'.bearer.userId].email
                       /\ ~Has(resp'.userDoc, "password") ]_vars

C11_Witness ==
  /\ resp.op = "gate"
  /\ resp.bearer.kind = "expired"
  /\ resp.bearer.userId \in DOMAIN users
  /\ users[resp.bearer.userId].isActive

\* C12: while a user is inactive or removed, every request with a correctly signed,
\* unexpired token of that user is answered 401 by the gate, and no login issues a
\* token for that user: a login with the email of an inactive user fails.
C12_InactiveUserLockedOut ==
  [][ resp' # resp =>
        /\ (/\ Has(resp', "bearer") /\ resp'.bearer.kind = "signed"
            /\ (users[resp'.bearer.userId].role = "removed"
                \/ ~users[resp'.bearer.userId].isActive))
             => (resp'.op = "gate" /\ resp'.status = 401)
        /\ resp'.op = "login" =>
             /\ Has(resp', "token") =>
                  (users[resp'.token.userId].isActive
                   /\ users[resp'.token.userId].role # "removed")
             /\ (resp'.valid /\ \E i \in DOMAIN users :
                                  users[i].email = resp'.body.email /\ ~users[i].isActive)
                  => (resp'.status >= 400 /\ ~Has(resp', "token")) ]_vars

C12_Witness ==
  /\ resp.op = "gate"
  /\ resp.bearer.kind = "signed"
  /\ users[resp.bearer.userId].role = "user"
  /\ ~users[resp.bearer.userId].isActive

(***************************************************************************)
(* The rate limiters and their mounting in front of the routers.           *)
(***************************************************************************)
\* Math.ceil(windowMs / 1000) for windowMs = 15 * 60 * 1000
WindowSeconds == 900

GeneralMax == 100

AuthMax == 5

\* the hits a client may add to a window beyond the limiter's max
MaxOver == 1

LimiterMax(l) == IF l = "auth" THEN AuthMax ELSE GeneralMax

LimiterMessage(l) ==
  IF l = "auth" THEN "Too many authentication attempts" ELSE "Too many requests from this IP"

\* app.use(path, limiter): the limiters in the order of their mounting
LimiterChain == <<"general", "auth">>

MountPath(l) == IF l = "auth" THEN <<"api", "auth">> ELSE <<"api">>

\* app.use(path, fn) runs fn for the requests whose path starts with path
MountedOn(l, path) ==
  /\ Len(MountPath(l)) <= Len(path)
  /\ SubSeq(path, 1, Len(MountPath(l))) = MountPath(l)

Routes ==
  {[method |-> "POST", path |-> <<"api", "auth", "register">>],
   [method |-> "POST", path |-> <<"api", "auth", "login">>],
   [method |-> "GET", path |-> <<"api", "auth", "profile">>],
   [method |-> "PUT", path |-> <<"api", "auth", "profile">>],
   [method |-> "GET", path |-> <<"api", "products">>]}

\* mutant: a limiter that lets one request more through
OverLimitLate(l, n) == n > LimiterMax(l) + 1

\* the limiter's test on the hits of the window, the request included
OverLimit(l, n) == n > LimiterMax(l)

\* the limiters of ls in turn for a request of client c: each counts the
\* request, then answers 429 or calls next()
RECURSIVE RunLimiters(_, _, _, _)
RunLimiters(ls, c, h, let) ==
  IF ls = << >>
  THEN [hits |-> h, blockedBy |-> "none", let |-> let]
  ELSE LET l == Head(ls)
           h2 == [h EXCEPT ![l][c] = @ + 1]
       IN IF OverLimit(l, h2[l][c])
          THEN [hits |-> h2, blockedBy |-> l, let |-> let]
          ELSE RunLimiters(Tail(ls), c, h2, let \cup {l})

\* the handler of createRateLimiter
TooMany(c, route, l) ==
  [op |-> "limiter", user |-> 0, id |-> 0, valid |-> TRUE, status |-> 429,
   client |-> c, route |-> route, limiter |-> l,
   json |-> [status |-> "error", message |-> LimiterMessage(l),
             retryAfter |-> WindowSeconds]]

\* a request of client c on route: the limiters mounted on its path, then
\* the router's chain Handler
Request(c, route, Handler) ==
  LET ls == SelectSeq(LimiterChain, LAMBDA l : MountedOn(l, route.path))
      r == RunLimiters(ls, c, hits, {})
  IN
  /\ \A i \in DOMAIN ls : hits[ls[i]][c] < LimiterMax(ls[i]) + MaxOver
  /\ hits' = r.hits
  /\ passed' = [l \in Limiters |->
                 [d \in Clients |->
                   IF d = c /\ l \in r.let THEN passed[l][d] + 1 ELSE passed[l][d]]]
  /\ UNCHANGED softDeleted
  /\ IF r.blockedBy # "none"
     THEN /\ resp' = TooMany(c, route, r.blockedBy)
          /\ UNCHANGED <<users, products, reqs>>
     ELSE Handler

\* the end of client c's window in the store of limiter l
WindowReset(l, c) ==
  /\ hits[l][c] > 0
  /\ hits' = [hits EXCEPT ![l][c] = 0]
  /\ passed' = [passed EXCEPT ![l][c] = 0]
  /\ UNCHANGED <<users, products, reqs, resp, softDeleted>>

\* PUT /api/auth/profile: auth, then the chain of updateProfile
PutProfile(b, body) ==
  LET g == AuthGate(b) IN
  /\ Issued(b)
  /\ IF ~g.pass
     THEN /\ resp' = GateResp(b, g)
          /\ UNCHANGED <<users, products, reqs>>
     ELSE ProfileStart(b.userId, body)

LimitRegisterBody ==
  [username |-> <<"a", "b">>, email |-> <<"a", "@", "x">>, password |-> GoodPassword]

LimitLoginBody == [email |-> <<"a", "@", "x">>, password |-> GoodPassword]

LimitQuery == [x \in {} |-> 0]

\* the routes each client calls: c1 login, the profile and the products, c2
\* the products
RoutesOf(c) ==
  IF c = "c1"
  THEN {r \in Routes : r.method = "GET" \/ r.path = <<"api", "auth", "login">>}
  ELSE {r \in Routes : r.path = <<"api", "products">>}

RouteHandler(route) ==
  CASE route.path = <<"api", "auth", "register">> -> RegisterStart(LimitRegisterBody)
    [] route.path = <<"api", "auth", "login">> -> Login(LimitLoginBody)
    [] route.path = <<"api", "auth", "profile">> /\ route.method = "GET" ->
         GetProfile([kind |-> "signed", userId |-> 1])
    [] route.path = <<"api", "auth", "profile">> /\ route.method = "PUT" ->
         PutProfile([kind |-> "none"], LimitLoginBody)
    [] OTHER -> GetProducts(1, LimitQuery)

NextLimit ==
  \/ \E c \in Clients : \E route \in RoutesOf(c) : Request(c, route, RouteHandler(route))
  \/ \E l \in Limiters, c \in Clients : WindowReset(l, c)

SpecLimit == Init /\ [][NextLimit]_vars

\* C13: for each limiter and each client, at most max requests (100 on /api/,
\* 5 on /api/auth) are let through in one window; a further request of that
\* client through that limiter is answered 429 with the retryAfter hint by
\* that limiter, and no validator, gate or handler runs for it (no store
\* changes, no request of a controller starts); a count only ever drops by
\* the window's reset, to zero, after which max requests pass again (the
\* requests let through are the hits of the window, up to max).
C13_LimitPerWindow ==
  [][ \A l \in Limiters, c \in Clients :
        /\ passed'[l][c] <= LimiterMax(l)
        /\ passed'[l][c] = Min(hits'[l][c], LimiterMax(l))
        /\ (passed[l][c] = LimiterMax(l) /\ hits'[l][c] = hits[l][c] + 1) =>
             /\ resp'.op = "limiter" /\ resp'.status = 429
             /\ resp'.client = c /\ resp'.limiter = l
             /\ resp'.json.retryAfter = WindowSeconds
             /\ passed'[l][c] = passed[l][c]
             /\ UNCHANGED <<users, products, reqs>>
        /\ (hits'[l][c] < hits[l][c]) => (hits'[l][c] = 0 /\ passed'[l][c] = 0)
    ]_vars

\* the sixth authentication request of c1 in a window has been answered 429
\* while c2 has requests of its own counted
C13_Witness ==
  /\ resp.op = "limiter" /\ resp.limiter = "auth" /\ resp.client = "c1"
  /\ passed["auth"]["c1"] = AuthMax /\ hits["auth"]["c1"] > AuthMax
  /\ passed["general"]["c2"] > 0

\* C14: GET and PUT /api/auth/profile are held to the general limit of 100
\* requests per window and client only: a profile request answered 429 has
\* been stopped by the general limiter, never by the limiter of 5.
C14_ProfileAtGeneralLimit ==
  (resp.op = "limiter" /\ resp.route.path = <<"api", "auth", "profile">>)
    => resp.limiter = "general"

(***************************************************************************)
(* Inventory statistics.                                                   *)
(***************************************************************************)
\* mutant: a $match stage that forgets the active flag
MatchAnyOwn(u) == SelectSeq(products, LAMBDA p : p.createdBy = u)

\* { $match: { isActive: true, createdBy: req.user._id } }
Match(u) == SelectSeq(products, LAMBDA p : p.isActive /\ p.createdBy = u)

\* the fallback of the response for an empty result
ZeroStats ==
  [totalProducts |-> 0, totalValue |-> 0, totalCost |-> 0,
   lowStockProducts |-> 0, outOfStockProducts |-> 0]

\* { $group: { _id: null, ... } }: the accumulators over the documents in turn
RECURSIVE GroupAll(_, _)
GroupAll(docs, acc) ==
  IF docs = << >> THEN acc
  ELSE LET p == Head(docs) IN
       GroupAll(Tail(docs),
                [totalProducts |-> acc.totalProducts + 1,
                 totalValue |-> acc.totalValue + p.price * p.quantity,
                 totalCost |-> acc.totalCost + p.cost * p.quantity,
                 lowStockProducts |->
                   acc.lowStockProducts + (IF p.quantity <= p.minQuantity THEN 1 ELSE 0),
                 outOfStockProducts |->
                   acc.outOfStockProducts + (IF p.quantity = 0 THEN 1 ELSE 0)])

\* the first pipeline: $group emits no document when $match selects none
AggregateStats(u) ==
  IF Match(u) = << >> THEN << >> ELSE << GroupAll(Match(u), ZeroStats) >>

\* { $group: { _id: '$category', count, totalValue } } over the documents docs
CategoryGroup(docs, cat) ==
  LET of == SelectSeq(docs, LAMBDA p : p.category = cat) IN
  [_id |-> cat, count |-> Len(of),
   totalValue |-> GroupAll(of, ZeroStats).totalValue]

\* the second pipeline: the groups in an order of non-increasing count; the
\* order of groups of equal count is the database's choice
CategoryStatsOrders(u) ==
  LET docs == Match(u)
      groups == { CategoryGroup(docs, docs[i].category) : i \in DOMAIN docs }
      n == Cardinality(groups)
  IN { s \in [1..n -> groups] :
         /\ \A i, j \in 1..n : i # j => s[i] # s[j]
         /\ \A i \in 1..n : i < n => s[i].count >= s[i + 1].count }

StatsReq(u, stats) == [pc |-> "categoryStats", uid |-> u, stats |-> stats]

\* GET /api/products/stats up to the result of the first aggregate
StatsStart(u) ==
  /\ BagCardinality(reqs) < MaxReqs
  /\ reqs' = reqs (+) SetToBag({StatsReq(u, AggregateStats(u))})
  /\ UNCHANGED <<users, products, resp>>

\* getInventoryStats from the second aggregate to the response
StatsFinish(q) ==
  /\ q.pc = "categoryStats"
  /\ BagIn(q, reqs)
  /\ reqs' = reqs (-) SetToBag({q})
  /\ \E cs \in CategoryStatsOrders(q.uid) :
       resp' = [op |-> "stats", user |-> q.uid, id |-> 0, status |-> 200, valid |-> TRUE,
                message |-> "Inventory statistics retrieved successfully",
                stats |-> IF q.stats # << >> THEN q.stats[1] ELSE ZeroStats,
                categoryStats |-> cs]
  /\ UNCHANGED <<users, products>>

MinimalBody == [name |-> <<"a", "b">>, price |-> 2, quantity |-> 1]

StatsCreateBodies ==
  { FullBody(<<"a">>, 1), WithField(FullBody(<<"b">>, 1), "minQuantity", 0), MinimalBody }

StatsQuantityBodies == { [quantity |-> 1, operation |-> "subtract"] }

NextStats ==
  \/ \E u \in UserIds, body \in StatsCreateBodies :
       CreateProduct(u, body) /\ UNCHANGED <<softDeleted, hits, passed>>
  \/ \E u \in UserIds, id \in IdInputs :
       DeleteProduct(u, id) /\ UNCHANGED <<softDeleted, hits, passed>>
  \/ \E u \in UserIds, id \in IdInputs, body \in StatsQuantityBodies :
       UpdateQuantity(u, id, body) /\ UNCHANGED <<softDeleted, hits, passed>>
  \/ \E u \in UserIds : StatsStart(u) /\ UNCHANGED <<softDeleted, hits, passed>>
  \/ \E q \in InFlight : StatsFinish(q) /\ UNCHANGED <<softDeleted, hits, passed>>

SpecStats == Init /\ [][NextStats]_vars

\* the sum of f over the set S
RECURSIVE SumOver(_, _)
SumOver(S, f) ==
  IF S = {} THEN 0
  ELSE LET x == CHOOSE y \in S : TRUE IN f[x] + SumOver(S \ {x}, f)

\* the statistics of user u as specified, over the store as it is
SpecifiedStats(u) ==
  LET own == { i \in ProductIds : products[i].createdBy = u /\ products[i].isActive = TRUE }
  IN [totalProducts |-> Cardinality(own),
      totalValue |-> SumOver(own, [i \in own |-> products[i].price * products[i].quantity]),
      totalCost |-> SumOver(own, [i \in own |-> products[i].cost * products[i].quantity]),
      lowStockProducts |->
        Cardinality({ i \in own : products[i].quantity <= products[i].minQuantity }),
      outOfStockProducts |-> Cardinality({ i \in own : products[i].quantity = 0 })]

\* C15: the stats object of a statistics response is the aggregate over exactly
\* the requesting user's active products, as the store was when the aggregate
\* ran: count, sum of price*quantity, sum of cost*quantity, count with
\* quantity <= minQuantity, count with quantity = 0; it has all five fields
\* whatever the store holds, and all are 0 when the user has no active product.
C15_StatsAreOwnActiveAggregate ==
  [][ /\ \A u \in UserIds :
           \A q \in BagToSet(reqs') :
             (q.pc = "categoryStats" /\ q.uid = u /\ CopiesIn(q, reqs') > CopiesIn(q, reqs)) =>
               /\ (IF q.stats # << >> THEN q.stats[1] ELSE ZeroStats) = SpecifiedStats(u)
               /\ (\A i \in ProductIds : products[i].createdBy = u => ~products[i].isActive)
                    => q.stats = << >>
      /\ \A q \in BagToSet(reqs) :
           (q.pc = "categoryStats" /\ CopiesIn(q, reqs') < CopiesIn(q, reqs)) =>
             /\ resp'.op = "stats" /\ resp'.status = 200 /\ resp'.user = q.uid
             /\ resp'.stats = (IF q.stats # << >> THEN q.stats[1] ELSE ZeroStats)
             /\ DOMAIN resp'.stats = DOMAIN ZeroStats
             /\ (q.stats = << >> => \A f \in DOMAIN ZeroStats : resp'.stats[f] = 0)
    ]_vars

\* statistics answered with one product counted for a user who owns an active
\* product with stock and a soft-deleted one
C15_Witness ==
  /\ resp.op = "stats"
  /\ resp.stats.totalProducts = 1 /\ resp.stats.totalValue > 0
  /\ \E i, j \in ProductIds :
       /\ products[i].createdBy = resp.user /\ products[i].isActive
       /\ products[j].createdBy = resp.user /\ ~products[j].isActive

\* C16: a create request whose body holds only a valid name, a price >= 0 and
\* an integer quantity >= 0 is answered 201 and its product is stored, active
\* and owned by the requester.
C16_MinimalCreateSucceeds ==
  (/\ resp.op = "create"
   /\ DOMAIN resp.body = {"name", "price", "quantity"}
   /\ ProductCreateValid(resp.body))
    => /\ resp.status = 201
       /\ resp.id \in ProductIds
       /\ products[resp.id].createdBy = resp.user
       /\ products[resp.id].isActive

(***************************************************************************)
(* Paging through the list.                                                *)
(***************************************************************************)
\* products of equal price
PageCreateBodies == { FullBody(<<"a">>, 1), FullBody(<<"b">>, 1) }

PagingQueries ==
  { so @@ pg :
      so \in {<< >>, [sortBy |-> "price", sortOrder |-> "asc"]},
      pg \in {[page |-> 1, limit |-> 1], [page |-> 2, limit |-> 1],
              [page |-> 3, limit |-> 1], [page |-> 1, limit |-> 2]} }

NextPage ==
  \/ \E u \in UserIds, body \in PageCreateBodies :
       CreateProduct(u, body) /\ UNCHANGED <<softDeleted, hits, passed>>
  \/ \E u \in UserIds, id \in IdInputs :
       DeleteProduct(u, id) /\ UNCHANGED <<softDeleted, hits, passed>>
  \/ \E u \in UserIds, q \in PagingQueries :
       GetProducts(u, q) /\ UNCHANGED <<softDeleted, hits, passed>>

SpecPage == Init /\ [][NextPage]_vars

\* the numbers of a list response against the store it was read from, for
\* the unfiltered queries of PagingQueries
PageArithmetic ==
  resp.op = "list" =>
    LET T == Cardinality({ i \in ProductIds :
                             products[i].createdBy = resp.user /\ products[i].isActive })
        pg == resp.pagination
    IN /\ pg.totalProducts = T
       /\ pg.totalPages = CeilDiv(T, resp.limit)
       /\ pg.hasPrevPage = (pg.currentPage > 1)
       /\ pg.hasNextPage = (pg.currentPage < pg.totalPages)
       /\ Len(resp.products) = Min(resp.limit, Max(0, T - (pg.currentPage - 1) * resp.limit))

\* C17: pages 1..totalPages of a list together return each matching product
\* exactly once: when page 2 is requested right after page 1 with the same
\* user, sort and limit 1 over two matching products, the two pages hold
\* different products.
C17_PagesReturnEachOnce ==
  [][ (/\ resp.op = "list" /\ resp'.op = "list"
       /\ resp'.user = resp.user /\ resp'.sort = resp.sort
       /\ resp.limit = 1 /\ resp'.limit = 1
       /\ resp.pagination.currentPage = 1 /\ resp'.pagination.currentPage = 2
       /\ resp.pagination.totalProducts = 2 /\ resp'.pagination.totalProducts = 2)
      => resp.products[1]._id # resp'.products[1]._id ]_vars

(***************************************************************************)
(* Profile updates that meet another user's email or username.             *)
(***************************************************************************)
ConflictBodies ==
  {[username |-> <<"a", "b", "x">>, email |-> <<"c", "@", "x">>],
   [email |-> <<"b", "@", "x">>]}

NextProfile ==
  \/ \E body \in GateRegisterBodies :
       RegisterStart(body) /\ UNCHANGED <<softDeleted, hits, passed>>
  \/ \E q \in InFlight : RegisterSave(q) /\ UNCHANGED <<softDeleted, hits, passed>>
  \/ \E u \in 1..MaxUsers, body \in ConflictBodies :
       ProfileStart(u, body) /\ UNCHANGED <<softDeleted, hits, passed>>
  \/ \E q \in InFlight : ProfileCheckEmail(q) /\ UNCHANGED <<softDeleted, hits, passed>>
  \/ \E q \in InFlight : ProfileCheckUsername(q) /\ UNCHANGED <<softDeleted, hits, passed>>
  \/ \E q \in InFlight : ProfileUpdate(q) /\ UNCHANGED <<softDeleted, hits, passed>>

SpecProfile == InitAuth /\ [][NextProfile]_vars

\* another user than u holds value v in field f
HeldByOther(u, f, v) == \E i \in DOMAIN users : i # u /\ users[i][f] = v

\* the field a duplicate check of updateProfile is about
CheckedField(q) == IF q.pc = "checkEmail" THEN "email" ELSE "username"

\* C18: a duplicate check of updateProfile answers a conflict when the
\* supplied email (username) differs from the caller's own, as the gate read
\* it, and another user holds it, and the caller's record stays as it is; a
\* check never answers a conflict for the value the caller's record holds;
\* no error answer of updateProfile comes with a change of the store; and an
\* update is only ever applied with all its supplied values free of other
\* users, so a free email sent with a taken username is not applied.
C18_ProfileConflict ==
  [][ \A q \in BagToSet(reqs) :
        (CopiesIn(q, reqs') < CopiesIn(q, reqs)) =>
          /\ (/\ q.pc \in {"checkEmail", "checkUsername"}
              /\ Has(q.body, CheckedField(q))
              /\ q.body[CheckedField(q)] # q.me[CheckedField(q)]
              /\ HeldByOther(q.uid, CheckedField(q), q.body[CheckedField(q)]))
             => /\ resp'.op = "profile" /\ resp'.user = q.uid
                /\ Has(resp', "error") /\ resp'.error = "ConflictError"
                /\ resp'.status \in {400, 409}
                /\ reqs' = Answered(q)
                /\ users' = users
          /\ (/\ q.pc \in {"checkEmail", "checkUsername"}
              /\ Has(q.body, CheckedField(q))
              /\ q.body[CheckedField(q)] = users[q.uid][CheckedField(q)])
             => /\ reqs' # Answered(q)
                /\ resp' = resp
          /\ (q.pc \in {"checkEmail", "checkUsername", "update"} /\ users' # users)
             => /\ q.pc = "update" /\ resp'.status = 200
                /\ \A f \in {"email", "username"} :
                     Has(q.body, f) => ~HeldByOther(q.uid, f, q.body[f])
          /\ (q.pc \in {"checkEmail", "checkUsername", "update"} /\ reqs' = Answered(q)
              /\ resp'.status >= 400)
             => users' = users
    ]_vars

\* a username conflict has been answered to a user who sent the taken username
\* abx together with the email c@x that nobody holds
C18_Witness ==
  /\ resp.op = "profile" /\ Has(resp, "error") /\ resp.error = "ConflictError"
  /\ resp.message = "This username is already taken by another user"
  /\ resp.user \in DOMAIN users
  /\ users[resp.user].username = <<"a", "b", "c">>
  /\ \A i \in DOMAIN users : users[i].email # <<"c", "@", "x">>

\* C19: every error response has a body with status = 'error' and a message
\* field: stated for the responses whose body is written by code at hand,
\* the authorization gate's and the rate limiters'.
C19_ErrorBodyShape ==
  (resp.status >= 400 /\ Has(resp, "json")) =>
    /\ {"status", "message"} \subseteq DOMAIN resp.json
    /\ resp.json.status = "error"

(***************************************************************************)
(* Passwords in the store and in the responses.                            *)
(***************************************************************************)
PasswordRegisterBodies ==
  {[username |-> <<"a", "b", "c">>, email |-> <<"a", "@", "x">>, password |-> GoodPassword],
   [username |-> <<"a", "b", "x">>, email |-> <<"b", "@", "x">>, password |-> OtherPassword]}

PasswordLoginBodies ==
  {[email |-> <<"a", "@", "x">>, password |-> GoodPassword],
   [email |-> <<"b", "@", "x">>, password |-> GoodPassword]}

PasswordProfileBodies ==
  {[username |-> <<"a", "b", "x">>, email |-> <<"c", "@", "x">>]}

NextPassword ==
  \/ \E body \in PasswordRegisterBodies :
       RegisterStart(body) /\ UNCHANGED <<softDeleted, hits, passed>>
  \/ \E q \in InFlight : RegisterSave(q) /\ UNCHANGED <<softDeleted, hits, passed>>
  \/ \E body \in PasswordLoginBodies : Login(body) /\ UNCHANGED <<softDeleted, hits, passed>>
  \/ \E u \in 1..MaxUsers :
       GetProfile([kind |-> "signed", userId |-> u]) /\ UNCHANGED <<softDeleted, hits, passed>>
  \/ \E u \in 1..MaxUsers, body \in PasswordProfileBodies :
       ProfileStart(u, body) /\ UNCHANGED <<softDeleted, hits, passed>>
  \/ \E q \in InFlight : ProfileCheckEmail(q) /\ UNCHANGED <<softDeleted, hits, passed>>
  \/ \E q \in InFlight : ProfileCheckUsername(q) /\ UNCHANGED <<softDeleted, hits, passed>>
  \/ \E q \in InFlight : ProfileUpdate(q) /\ UNCHANGED <<softDeleted, hits, passed>>

SpecPassword == InitAuth /\ [][NextPassword]_vars

\* the passwords the clients send
PlainPasswords == {GoodPassword, OtherPassword}

\* C20: no stored password is a plaintext a client sent: register stores the
\* hash of the password of its request, and no step of register, login,
\* getProfile or updateProfile changes the password of a stored user; every
\* user object in a response (register, login, getProfile, updateProfile)
\* lacks the password field.
C20_PasswordNeverExposed ==
  [][ /\ \A i \in DOMAIN users' :
           /\ users'[i].password \notin PlainPasswords
           /\ \E w \in PlainPasswords : users'[i].password = Hash(w)
      /\ \A i \in DOMAIN users :
           i \in DOMAIN users' /\ users'[i].password = users[i].password
      /\ \A q \in BagToSet(reqs) :
           (q.pc = "save" /\ CopiesIn(q, reqs') < CopiesIn(q, reqs) /\ Len(users') > Len(users))
             => users'[Len(users')].password = Hash(q.body.password)
      /\ Has(resp', "userDoc") => ~Has(resp'.userDoc, "password")
    ]_vars

\* updateProfile has answered with the updated record of a user registered
\* with a password, and that user's stored password is still its hash
C20_Witness ==
  /\ resp.op = "profile" /\ resp.status = 200 /\ Has(resp, "userDoc")
  /\ resp.userDoc.email = <<"c", "@", "x">>
  /\ users[resp.user].password = Hash(OtherPassword)

\* C21: no two stored products, active or soft-deleted, of one owner or of
\* two, have the same uppercased SKU; a create answered 201 or an update
\* answered 200 that names a SKU found no other product holding its
\* uppercased form, and a create or update refused for its SKU is answered
\* 400 or 409 and leaves the store as it was.
C21_UniqueSku ==
  [][ /\ \A i, j \in DOMAIN products' :
           i # j => UpperStr(products'[i].sku) # UpperStr(products'[j].sku)
      /\ (resp' # resp /\ resp'.op \in {"create", "update"} /\ resp'.valid) =>
           /\ (resp'.status \in {200, 201} /\ Has(resp'.body, "sku")) =>
                /\ ~\E i \in ProductIds :
                      i # resp'.id /\ UpperStr(products[i].sku) = UpperStr(resp'.body.sku)
                /\ products'[resp'.id].sku = UpperStr(resp'.body.sku)
           /\ (resp'.op = "create" /\ resp'.status # 201) =>
                (resp'.status \in {400, 409} /\ products' = products)
           /\ (resp'.op = "update" /\ resp'.status = 400) =>
                /\ products' = products
                /\ \E i \in ProductIds :
                     i # resp'.id /\ products[i].sku = UpperStr(resp'.body.sku)
    ]_vars

\* an update to the lower-case form of a SKU that a soft-deleted product of
\* the other user holds has been refused
C21_Witness ==
  /\ resp.op = "update" /\ resp.status = 400
  /\ resp.body = [sku |-> <<"a">>]
  /\ \E i \in ProductIds :
       /\ i # resp.id /\ products[i].sku = <<"A">>
       /\ ~products[i].isActive /\ products[i].createdBy # resp.user

(***************************************************************************)
(* The administrator gate and the role given at registration.              *)
(***************************************************************************)

AdminRequiredText == "Access denied. Admin privileges required."

\* mutant: an administrator gate that only authenticates
AdminAuthAnyRole(b) == AuthGate(b)

\* adminAuth: auth first, then the role check in the callback given to auth
AdminAuth(b) ==
  LET g == AuthGate(b) IN
  IF ~g.pass THEN g
  ELSE IF g.user.role # "admin"
  THEN [pass |-> FALSE, status |-> 403, error |-> AdminRequiredText]
  ELSE g

\* a route behind adminAuth, with the handler of the example in its comment
AdminRoute(b) ==
  LET g == AdminAuth(b) IN
  /\ Issued(b)
  /\ UNCHANGED <<users, products, reqs>>
  /\ IF ~g.pass
     THEN resp' = GateResp(b, g)
     ELSE resp' = [op |-> "admin", user |-> g.user._id, id |-> 0, valid |-> TRUE,
                   status |-> 200, json |-> [message |-> "Admin access granted"],
                   bearer |-> b]

NextAdmin ==
  \/ \E body \in
       {[username |-> <<"a", "b", "c">>, email |-> <<"a", "@", "x">>,
         password |-> GoodPassword, role |-> "admin"],
        [username |-> <<"a", "b", "x">>, email |-> <<"b", "@", "x">>,
         password |-> GoodPassword],
        [username |-> <<"a", "b", "x">>, email |-> <<"a", "@", "x">>,
         password |-> GoodPassword, role |-> "user"],
        [username |-> <<"a", "b", "c">>, email |-> <<"c", "@", "x">>,
         password |-> GoodPassword, role |-> "root"]} :
       RegisterStart(body) /\ UNCHANGED <<softDeleted, hits, passed>>
  \/ \E q \in InFlight : RegisterSave(q) /\ UNCHANGED <<softDeleted, hits, passed>>
  \/ \E b \in Bearers : AdminRoute(b) /\ UNCHANGED <<softDeleted, hits, passed>>
  \/ \E u \in 1..MaxUsers : DeactivateUser(u) /\ UNCHANGED <<softDeleted, hits, passed>>

SpecAdmin == InitAuth /\ [][NextAdmin]_vars

\* C22: a register request whose email is held by an existing user is answered
\* with the email message, also when its username is held too (by the same or
\* by another user); the username message is given only when the email is free.
C22_EmailConflictFirst ==
  [][ (resp' # resp /\ resp'.op = "register" /\ Has(resp', "email")) =>
        /\ (\E i \in DOMAIN users : users[i].email = resp'.email)
             => resp'.message = "Email is already registered"
        /\ resp'.message = "Username is already taken"
             => /\ \E i \in DOMAIN users : users[i].username = resp'.username
                /\ ~\E i \in DOMAIN users : users[i].email = resp'.email ]_vars

\* C25: behind the administrator gate a request that fails authentication is
\* answered 401 by the gate, an authenticated user whose role is not admin is
\* answered 403 with the access-denied text under the key error, and an
\* authenticated admin reaches the handler, which answers once.
C25_AdminGate ==
  [][ (resp' # resp /\ Has(resp', "bearer")) =>
        LET c == GateCase(resp'.bearer) IN
        /\ c # "ok" => /\ resp'.op = "gate" /\ resp'.status = 401
                       /\ resp'.json = [error |-> GateText(c)]
        /\ (c = "ok" /\ users[resp'.bearer.userId].role # "admin") =>
              /\ resp'.op = "gate" /\ resp'.status = 403
              /\ resp'.json = [error |-> "Access denied. Admin privileges required."]
        /\ (c = "ok" /\ users[resp'.bearer.userId].role = "admin") =>
              /\ resp'.op = "admin" /\ resp'.status = 200
              /\ resp'.user = resp'.bearer.userId ]_vars

\* an active user of role user has been refused with 403, while an admin exists
C25_Witness ==
  /\ resp.op = "gate" /\ resp.status = 403
  /\ resp.bearer.kind = "signed"
  /\ users[resp.bearer.userId].role = "user" /\ users[resp.bearer.userId].isActive
  /\ \E i \in DOMAIN users : users[i].role = "admin"

\* C30: the account a register request creates has the role the request
\* supplies, user or admin, and the role user when it supplies none; the
\* account is created by the request alone, and the token of an account
\* registered as admin passes the administrator gate.
C30_RoleAsSupplied ==
  [][ /\ Len(users') = Len(users) + 1 =>
           \E q \in BagToSet(reqs) :
             /\ CopiesIn(q, reqs') < CopiesIn(q, reqs)
             /\ users'[Len(users')].username = q.body.username
             /\ users'[Len(users')].role \in {"user", "admin"}
             /\ Has(q.body, "role") => users'[Len(users')].role = q.body.role
             /\ ~Has(q.body, "role") => users'[Len(users')].role = "user"
             /\ resp'.status = 201 /\ resp'.userDoc.role = users'[Len(users')].role
      /\ (resp' # resp /\ resp'.op = "admin") =>
           /\ users[resp'.user].role = "admin"
           /\ resp'.bearer = [kind |-> "signed", userId |-> resp'.user] ]_vars

\* the account registered with role admin has passed the administrator gate
C30_Witness ==
  /\ resp.op = "admin" /\ resp.status = 200
  /\ users[resp.user].role = "admin"
  /\ users[resp.user].username = <<"a", "b", "c">>

\* C29: a login with the email of a deactivated user is answered with the
\* account-disabled message whether its password is right or wrong, and with no
\* token; a login with an unregistered email is answered with another message;
\* no login hands a token to a user who is not active.
C29_DisabledBeforePassword ==
  [][ (resp' # resp /\ resp'.op = "login" /\ resp'.valid) =>
        LET holders == { i \in DOMAIN users : users[i].email = resp'.body.email }
            disabled == "Your account has been disabled. Please contact administrator."
        IN
        /\ (\E i \in holders : ~users[i].isActive) =>
              /\ resp'.message = disabled
              /\ ~Has(resp', "token") /\ ~Has(resp', "userDoc")
        /\ holders = {} => (resp'.message # disabled /\ ~Has(resp', "token"))
        /\ Has(resp', "token") => users[resp'.token.userId].isActive ]_vars

\* a deactivated user has given the right password and got the disabled message
C29_Witness ==
  /\ resp.op = "login" /\ resp.valid
  /\ resp.message = "Your account has been disabled. Please contact administrator."
  /\ resp.body.password = GoodPassword
  /\ \E i \in DOMAIN users :
       /\ users[i].email = resp.body.email /\ ~users[i].isActive
       /\ ComparePassword(resp.body.password, users[i].password)

\* C28: on a soft-deleted product the requests of its owner are not answered
\* 404: a delete is answered 200 again and leaves the product inactive and
\* otherwise as it was, a quantity adjustment is answered 200 and stores the
\* adjusted quantity, and an update is answered 200 and stores the fields of
\* its body (unless its SKU is held by another product, which is answered 400).
C28_InactiveStillWritable ==
  [][ (/\ resp' # resp /\ resp'.op \in {"update", "quantity", "delete"} /\ resp'.valid
       /\ resp'.id \in ProductIds
       /\ ~products[resp'.id].isActive
       /\ products[resp'.id].createdBy = resp'.user) =>
        LET id == resp'.id IN
        /\ resp'.status # 404
        /\ resp'.op = "delete" =>
             /\ resp'.status = 200
             /\ ~products'[id].isActive
             /\ products' = products
        /\ resp'.op = "quantity" =>
             /\ resp'.status = 200
             /\ products'[id].quantity =
                  SpecifiedQuantity(products[id].quantity, resp'.body)
             /\ ~products'[id].isActive
        /\ resp'.op = "update" =>
             /\ resp'.status = 200 \/ (resp'.status = 400 /\ Has(resp'.body, "sku"))
             /\ resp'.status = 200 =>
                  \A k \in DOMAIN resp'.body :
                    products'[id][k] = IF k = "sku" THEN UpperStr(resp'.body[k])
                                       ELSE resp'.body[k] ]_vars

\* the owner has added stock to a soft-deleted product, which is still inactive
C28_Witness ==
  /\ resp.op = "quantity" /\ resp.status = 200
  /\ resp.id \in softDeleted
  /\ ~products[resp.id].isActive
  /\ products[resp.id].createdBy = resp.user
  /\ products[resp.id].quantity = 1
  /\ resp.body = [quantity |-> 1]

(***************************************************************************)
(* The quantity adjustment as the two steps it is: updateQuantity awaits   *)
(* findById and later awaits save(), and other requests run in between.    *)
(* UpdateQuantity above is the two steps with nothing in between.          *)
(***************************************************************************)

\* updateQuantity up to the answer of Product.findById: the loaded document
\* stays with the request
QuantityRead(u, id, body) ==
  LET r == [op |-> "quantity", user |-> u, id |-> id] IN
  /\ BagCardinality(reqs) < MaxReqs
  /\ UNCHANGED <<users, products>>
  /\ IF ~QuantityUpdateValid(body)
     THEN /\ \E st \in ErrorStatuses("ValidationError") :
               resp' = r @@ [status |-> st, valid |-> FALSE]
          /\ UNCHANGED reqs
     ELSE IF id \notin ProductIds
     THEN resp' = r @@ [status |-> 404, valid |-> TRUE] /\ UNCHANGED reqs
     ELSE IF ~IsOwner(products[id], u)
     THEN resp' = r @@ [status |-> 403, valid |-> TRUE] /\ UNCHANGED reqs
     ELSE /\ reqs' = reqs (+) SetToBag({[pc |-> "quantitySave", uid |-> u, id |-> id,
                                         body |-> body, doc |-> products[id]]})
          /\ UNCHANGED resp

\* mutant: a save that adds to the quantity the store holds now
QuantitySaveAtomic(q) ==
  LET r == [op |-> "quantity", user |-> q.uid, id |-> q.id]
      now == products[q.id].quantity
      n == NewQuantity(now, q.body.quantity, OperationOf(q.body))
  IN
  /\ q.pc = "quantitySave"
  /\ n >= 0 /\ n <= MaxQty + 1
  /\ reqs' = Answered(q)
  /\ UNCHANGED users
  /\ products' = Store(q.id, [products[q.id] EXCEPT !.quantity = n])
  /\ resp' = r @@ [status |-> 200, valid |-> TRUE, body |-> q.body,
                   product |-> [q.doc EXCEPT !.quantity = n],
                   read |-> q.doc.quantity, before |-> now]

\* updateQuantity from the switch to the response: the new quantity is computed
\* from the loaded document, and save() sets the path quantity if it has
\* changed in that document.  read and before record, for the properties, the
\* quantity the request had loaded and the one the store held before the save.
QuantitySave(q) ==
  LET r == [op |-> "quantity", user |-> q.uid, id |-> q.id]
      n == NewQuantity(q.doc.quantity, q.body.quantity, OperationOf(q.body))
  IN
  /\ q.pc = "quantitySave"
  /\ reqs' = Answered(q)
  /\ UNCHANGED users
  /\ IF n # q.doc.quantity /\ n < 0
     THEN /\ resp' = r @@ [status |-> 500, valid |-> TRUE, body |-> q.body]
          /\ UNCHANGED products
     ELSE /\ n <= MaxQty
          /\ products' = IF n # q.doc.quantity
                         THEN Store(q.id, [products[q.id] EXCEPT !.quantity = n])
                         ELSE products
          /\ resp' = r @@ [status |-> 200, valid |-> TRUE, body |-> q.body,
                           product |-> [q.doc EXCEPT !.quantity = n],
                           read |-> q.doc.quantity,
                           before |-> products[q.id].quantity]

NextRace ==
  \/ \E u \in UserIds, body \in {PlainBody(<<"b">>, 0), FullBody(<<"a">>, 1)} :
       CreateProduct(u, body) /\ UNCHANGED <<softDeleted, hits, passed>>
  \/ \E u \in UserIds, id \in IdInputs,
        body \in {[quantity |-> 1, operation |-> "add"],
                  [quantity |-> 1, operation |-> "subtract"]} :
       QuantityRead(u, id, body) /\ UNCHANGED <<softDeleted, hits, passed>>
  \/ \E q \in InFlight : QuantitySave(q) /\ UNCHANGED <<softDeleted, hits, passed>>

SpecRace == Init /\ [][NextRace]_vars

\* C23: the save of an add request stores the quantity the request had read
\* plus its amount, whatever the store holds by then; so of two concurrent add
\* requests on one product that both read q and both are answered 200, the
\* second save leaves q+b and the first addition is lost.
C23_AddWritesFromItsRead ==
  [][ \A q \in BagToSet(reqs) :
        (/\ q.pc = "quantitySave" /\ CopiesIn(q, reqs') < CopiesIn(q, reqs)
         /\ OperationOf(q.body) = "add") =>
          /\ resp'.status = 200
          /\ resp'.product.quantity = q.doc.quantity + q.body.quantity
          /\ products'[q.id].quantity = q.doc.quantity + q.body.quantity ]_vars

\* two add requests of amount 1 on a product of quantity 0 have both been
\* answered 200 and the store holds 1, not 2
C23_Witness ==
  /\ reqs = EmptyBag
  /\ resp.op = "quantity" /\ resp.status = 200
  /\ resp.body = [quantity |-> 1, operation |-> "add"]
  /\ resp.read = 0 /\ resp.before = 1
  /\ products[resp.id].quantity = 1

(***************************************************************************)
(* The order of the middleware on the product routes: router.use(auth)     *)
(* comes before every route, so the gate runs before the validator chain   *)
(* of the route.                                                           *)
(***************************************************************************)

\* POST /api/products: the gate of router.use(auth), then productCreate and
\* createProduct.  The answer of the gate carries the body of the request it
\* has refused, for the properties.
PostProduct(b, body) ==
  LET g == AuthGate(b) IN
  /\ Issued(b)
  /\ IF ~g.pass
     THEN /\ resp' = GateResp(b, g) @@ [body |-> body]
          /\ UNCHANGED <<users, products, reqs>>
     ELSE CreateProduct(g.user._id, body)

NextOrder ==
  \/ \E b \in Bearers,
        body \in {FullBody(<<"a">>, 1), PlainBody(<<"b">>, 0),
                  [name |-> <<"a">>, price |-> 2, quantity |-> 1]} :
       PostProduct(b, body) /\ UNCHANGED <<softDeleted, hits, passed>>
  \/ \E u \in UserIds, id \in IdInputs :
       DeleteProduct(u, id) /\ UNCHANGED <<softDeleted, hits, passed>>
  \/ \E u \in UserIds : DeactivateUser(u) /\ UNCHANGED <<softDeleted, hits, passed>>

SpecOrder == Init /\ [][NextOrder]_vars

\* C24: a request to a protected route whose body the validator of the route
\* refuses is answered 400 by the validator, whatever its token: the validator
\* runs before the gate.
C24_ValidatorBeforeGate ==
  (/\ resp.op \in {"gate", "create"}
   /\ Has(resp, "body")
   /\ ~ProductCreateValid(resp.body)) =>
     (resp.op = "create" /\ resp.status = 400)

\* C26: in every statistics response the counts of the per-category breakdown
\* sum to stats.totalProducts, their totalValue fields sum to stats.totalValue,
\* and the breakdown is in an order of non-increasing count.
C26_StatsAgreeWithBreakdown ==
  resp.op = "stats" =>
    LET cs == resp.categoryStats
        n == DOMAIN cs
    IN /\ SumOver(n, [i \in n |-> cs[i].count]) = resp.stats.totalProducts
       /\ SumOver(n, [i \in n |-> cs[i].totalValue]) = resp.stats.totalValue
       /\ \A i, j \in n : i < j => cs[i].count >= cs[j].count

(***************************************************************************)
(* The stockStatus filters of the list and the two stock counts of the     *)
(* statistics, against the virtual stockStatus of the documents.           *)
(***************************************************************************)

NextStock ==
  \/ \E u \in UserIds, body \in {FullBody(<<"a">>, 1), PlainBody(<<"b">>, 0)} :
       CreateProduct(u, body) /\ UNCHANGED <<softDeleted, hits, passed>>
  \/ \E u \in UserIds, id \in IdInputs :
       UpdateQuantity(u, id, [quantity |-> 1, operation |-> "subtract"])
       /\ UNCHANGED <<softDeleted, hits, passed>>
  \/ \E u \in UserIds, st \in {"in-stock", "low-stock", "out-of-stock"} :
       GetProducts(u, [stockStatus |-> st]) /\ UNCHANGED <<softDeleted, hits, passed>>
  \/ \E u \in UserIds : StatsStart(u) /\ UNCHANGED <<softDeleted, hits, passed>>
  \/ \E q \in InFlight : StatsFinish(q) /\ UNCHANGED <<softDeleted, hits, passed>>

SpecStock == Init /\ [][NextStock]_vars

====
